---- MODULE Spec2Model ----
(***************************************************************************)
(* Invoice lifecycle of the Shopify billing backend: order snapshots, the  *)
(* invoice job queue, the retry engine (GET /api/cron/retry-pending), the   *)
(* order-creation and order-cancellation webhooks, manual issuance and the  *)
(* operator batch actions, over one shared database.                        *)
(*                                                                         *)
(* Every database call of the retry engine and of the cancellation webhook  *)
(* is one step, so that invocations running at the same time interleave at  *)
(* the granularity of their reads and writes.                               *)
(***************************************************************************)
EXTENDS Integers, Sequences, FiniteSets, TLC

\* ------------------------------------------------------------------ bounds
NumOrders == 1
MaxJobs == 2
MaxNotes == 2
MaxTime == 10
IssuedCap == 2
QueueLen == 11

\* ------------------------------------------------------- program constants
maxRetries == 3
batchSize == 10
RetryDelayMinutes == 5
CleanupAgeDays == 7

CleanupAgeMinutes == CleanupAgeDays * 24 * 60

\* ------------------------------------------------------------- value sets
NULL == "null"
\* A table slot holding no row; a nullable number holding null.
NoRow == [none |-> TRUE]
NullNum == 0 - 1

OrderIds == 1..NumOrders
JobIds == 1..MaxJobs
Customers == {"c1"}
Workers == {"w1", "w2"}
Deliveries == {"d1", "d2"}

Countries == {"IT", "FR", NULL}
Reasons == {NULL, "", "customer"}

\* total_price of the order-creation event of an order
TotalOf(o) == 100 * o

\* What the customer directory (Shopify metafields) answers for a customer:
\* presence of partitaIva, codiceFiscale, ragioneSociale; `throws` when the
\* request fails.
Metafields ==
  { [throws |-> FALSE, partitaIva |-> FALSE, codiceFiscale |-> FALSE, ragioneSociale |-> FALSE],
    [throws |-> FALSE, partitaIva |-> TRUE,  codiceFiscale |-> FALSE, ragioneSociale |-> FALSE],
    [throws |-> FALSE, partitaIva |-> FALSE, codiceFiscale |-> FALSE, ragioneSociale |-> TRUE] }

DirectoryAnswers ==
  Metafields \cup
  { [throws |-> TRUE, partitaIva |-> FALSE, codiceFiscale |-> FALSE, ragioneSociale |-> FALSE] }

VARIABLES
  now,        \* wall clock, minutes
  users,      \* User rows by shopifyCustomerId: NoRow or [countryCode]
  profiles,   \* BillingProfile rows by customer: NoRow or [isBusiness, vatNumber, taxCode]
  orders,     \* OrderSnapshot rows by shopifyOrderId
  jobs,       \* QueueJob rows by id
  nextJob,    \* next free job id
  notes,      \* CreditNote rows, in creation order
  events,     \* the order-creation event of each external order id
  delivered,  \* how many times the order-creation event was delivered (capped at 2)
  cancelDone, \* orders for which a cancellation event was processed to the end
  issued,     \* successful issueInvoice calls per order (capped at IssuedCap)
  rw,         \* retry engine invocations
  cw          \* cancellation webhook invocations

vars == <<now, users, profiles, orders, jobs, nextJob, notes, events,
          delivered, cancelDone, issued, rw, cw>>

dbVars == <<users, profiles, orders, jobs, nextJob, notes>>

\* ---------------------------------------------------------------- helpers
Min(a, b) == IF a < b THEN a ELSE b

\* JavaScript `a || b` on a nullable string.
OrElse(a, b) == IF a = NULL \/ a = "" THEN b ELSE a

\* JavaScript `n || 0` on a nullable number.
OrZero(n) == IF n = NullNum THEN 0 ELSE n

IdleWorker == [pc |-> "idle", batch |-> <<>>, snap |-> NULL, errorMessage |-> NULL,
               resultId |-> NullNum, resultDate |-> NullNum]

IdleDelivery == [pc |-> "idle", order |-> NullNum, reason |-> NULL, seen |-> NULL,
                 resp |-> NULL]

\* prisma.queueJob.create({ type: 'invoice', payload: { shopifyOrderId },
\*                          status: 'PENDING', scheduledAt: new Date() })
NewJob(o, t) ==
  [type |-> "invoice", shopifyOrderId |-> o, status |-> "PENDING",
   attempts |-> 0, scheduledAt |-> t, lastError |-> NULL, processedAt |-> NullNum]

\* The elements of a set of order ids, in ascending order.
RECURSIVE Sorted2Seq(_)
Sorted2Seq(S) ==
  IF S = {} THEN <<>>
  ELSE LET m == CHOOSE a \in S : \A b \in S : a <= b
       IN <<m>> \o Sorted2Seq(S \ {m})

\* Adds one job row per order of the sequence os, in order.
RECURSIVE EnqueueAll(_, _, _, _)
EnqueueAll(js, nj, os, t) ==
  IF os = <<>> THEN <<js, nj>>
  ELSE EnqueueAll([js EXCEPT ![nj] = NewJob(Head(os), t)], nj + 1, Tail(os), t)

\* orderSnapshotSchema: invoiceStatus is z.enum(['PENDING','ISSUED','ERROR','FOREIGN']).
OrderSchemaAccepts(status) == status \in {"PENDING", "ISSUED", "ERROR", "FOREIGN"}

\* isBusinessCustomer(metafields)
isBusinessCustomer(m) == m.partitaIva \/ m.ragioneSociale

\* extractBillingDataFromMetafields(metafields) # null
HasBillingData(m) == m.partitaIva \/ m.codiceFiscale \/ m.ragioneSociale

JobsOf(o) == {j \in JobIds : jobs[j] # NoRow /\ jobs[j].shopifyOrderId = o}

\* Saturating count of successful issueInvoice calls.
Bump(n) == Min(n + 1, IssuedCap)

\* ------------------------------------------------------------------- Init
Init ==
  /\ now = 0
  /\ users = [c \in Customers |-> NoRow]
  /\ profiles = [c \in Customers |-> NoRow]
  /\ orders = [o \in OrderIds |-> NoRow]
  /\ jobs = [j \in JobIds |-> NoRow]
  /\ nextJob = 1
  /\ notes = <<>>
  /\ events = [o \in OrderIds |-> NoRow]
  /\ delivered = [o \in OrderIds |-> 0]
  /\ cancelDone = {}
  /\ issued = [o \in OrderIds |-> 0]
  /\ rw = [w \in Workers |-> IdleWorker]
  /\ cw = [d \in Deliveries |-> IdleDelivery]

\* Time passes.
Tick ==
  /\ now + RetryDelayMinutes <= MaxTime
  /\ now' = now + RetryDelayMinutes
  /\ UNCHANGED <<users, profiles, orders, jobs, nextJob, notes, events,
                 delivered, cancelDone, issued, rw, cw>>

\* More than the retention of terminal jobs passes at once.
Week ==
  /\ now <= MaxTime
  /\ now' = now + CleanupAgeMinutes + RetryDelayMinutes
  /\ UNCHANGED <<users, profiles, orders, jobs, nextJob, notes, events,
                 delivered, cancelDone, issued, rw, cw>>

\* ------------------------------------- POST /api/webhooks/orders/create
\* The row written for an order: orderData of the handler.
OrderData(e, hasVatProfile, invoiceStatus) ==
  [userId |-> e.customer, hasVatProfile |-> hasVatProfile,
   invoiceStatus |-> invoiceStatus, totalPrice |-> e.total,
   invoiceId |-> NullNum, invoiceDate |-> NullNum, lastError |-> NULL]

\* prisma.orderSnapshot.upsert({ update: validatedOrderData, create: ... }):
\* the update leaves the columns that orderData does not name untouched.
UpsertOrder(old, data) ==
  IF old = NoRow THEN data
  ELSE [old EXCEPT !.userId = data.userId,
                   !.hasVatProfile = data.hasVatProfile,
                   !.invoiceStatus = data.invoiceStatus,
                   !.totalPrice = data.totalPrice]

\* Classification of an order of a customer already in the database.
KnownHasVatProfile_VatOnly(p, billingCountryCode) ==
  p # NoRow /\ p.isBusiness /\ billingCountryCode = "IT" /\ p.vatNumber

KnownHasVatProfile(p, billingCountryCode) ==
  /\ p # NoRow
  /\ p.isBusiness
  /\ billingCountryCode = "IT"
  /\ (p.vatNumber \/ p.taxCode)

KnownInvoiceStatus(hasVatProfile, billingCountryCode) ==
  IF billingCountryCode # NULL /\ billingCountryCode # "IT" THEN "FOREIGN"
  ELSE IF ~hasVatProfile /\ billingCountryCode = "IT" THEN "CORRISPETTIVO"
  ELSE "PENDING"

\* Classification of an order of a customer created by this event.
NewInvoiceStatus(hasVatProfile, billingCountryCode) ==
  IF billingCountryCode # NULL /\ billingCountryCode # "IT" THEN "FOREIGN"
  ELSE IF hasVatProfile /\ billingCountryCode = "IT" THEN "PENDING"
  ELSE IF billingCountryCode = "IT" THEN "CORRISPETTIVO"
  ELSE "PENDING"

\* The customer exists: classify, upsert the snapshot, enqueue.
OrderCreateKnown(o, e) ==
  LET c == e.customer
      billingCountryCode == OrElse(e.country, users[c].countryCode)
      hasVatProfile == KnownHasVatProfile(profiles[c], billingCountryCode)
      invoiceStatus == KnownInvoiceStatus(hasVatProfile, billingCountryCode)
      enqueue == hasVatProfile /\ invoiceStatus = "PENDING"
  IN /\ users[c] # NoRow
     /\ enqueue => nextJob <= MaxJobs
     /\ delivered' = [delivered EXCEPT ![o] = Min(@ + 1, 2)]
     /\ IF OrderSchemaAccepts(invoiceStatus)
        THEN /\ orders' = [orders EXCEPT ![o] =
                             UpsertOrder(@, OrderData(e, hasVatProfile, invoiceStatus))]
             /\ IF enqueue
                THEN /\ jobs' = [jobs EXCEPT ![nextJob] = NewJob(o, now)]
                     /\ nextJob' = nextJob + 1
                ELSE UNCHANGED <<jobs, nextJob>>
        ELSE UNCHANGED <<orders, jobs, nextJob>>  \* parse throws: 500
     /\ UNCHANGED <<now, users, profiles, notes, cancelDone, issued, rw, cw>>

\* The customer is unknown: create it, ask the directory for its business
\* data, create its profile, classify, create the snapshot, enqueue.
\* `valid` is the outcome of billingProfileSchema.safeParse.
OrderCreateUnknown(o, e, answer, valid) ==
  LET c == e.customer
      billingCountryCode == e.country
      business == ~answer.throws /\ isBusinessCustomer(answer) /\ HasBillingData(answer)
      created == business /\ valid
      profile == [isBusiness |-> TRUE, vatNumber |-> answer.partitaIva,
                  taxCode |-> answer.codiceFiscale]
      hasVatProfile == created /\ billingCountryCode = "IT"
                         /\ (profile.vatNumber \/ profile.taxCode)
      invoiceStatus == NewInvoiceStatus(hasVatProfile, billingCountryCode)
      enqueue == hasVatProfile /\ invoiceStatus = "PENDING"
      stored == OrderSchemaAccepts(invoiceStatus) /\ orders[o] = NoRow
  IN /\ users[c] = NoRow
     /\ enqueue => nextJob <= MaxJobs
     /\ delivered' = [delivered EXCEPT ![o] = Min(@ + 1, 2)]
     /\ users' = [users EXCEPT ![c] = [countryCode |-> billingCountryCode]]
     /\ profiles' = IF created THEN [profiles EXCEPT ![c] = profile] ELSE profiles
     /\ orders' = IF stored
                  THEN [orders EXCEPT ![o] = OrderData(e, hasVatProfile, invoiceStatus)]
                  ELSE orders
     /\ IF stored /\ enqueue
        THEN /\ jobs' = [jobs EXCEPT ![nextJob] = NewJob(o, now)]
             /\ nextJob' = nextJob + 1
        ELSE UNCHANGED <<jobs, nextJob>>
     /\ UNCHANGED <<now, notes, cancelDone, issued, rw, cw>>

\* Delivery of the order-creation event `e` of order o. The first delivery
\* fixes the event; a later delivery is a redelivery of that same event.
OrderCreate(o, e) ==
  /\ events[o] \in {NoRow, e}
  /\ events' = [events EXCEPT ![o] = e]
  /\ \/ OrderCreateKnown(o, e)
     \/ \E answer \in DirectoryAnswers, valid \in BOOLEAN :
          OrderCreateUnknown(o, e, answer, valid)

\* The order-creation events of order o.
OrderEvents(o) ==
  { [customer |-> c, country |-> k, total |-> TotalOf(o)] : c \in Customers, k \in Countries }

\* ------------------------------------ POST /api/webhooks/customers/update
\* prisma.billingProfile.upsert: a field given as undefined is left as it is.
UpsertProfile(old, m) ==
  IF old = NoRow
  THEN [isBusiness |-> TRUE, vatNumber |-> m.partitaIva, taxCode |-> m.codiceFiscale]
  ELSE [isBusiness |-> TRUE,
        vatNumber |-> (m.partitaIva \/ old.vatNumber),
        taxCode |-> (m.codiceFiscale \/ old.taxCode)]

\* `hasCompany`: the primary address carries a company name; `valid`: the
\* outcome of billingProfileSchema.parse.
CustomerUpdate(c, country, m, hasCompany, valid) ==
  LET isBusiness == isBusinessCustomer(m) \/ hasCompany
  IN /\ users' = [users EXCEPT ![c] = [countryCode |-> country]]
     /\ profiles' = IF isBusiness
                    THEN (IF valid THEN [profiles EXCEPT ![c] = UpsertProfile(@, m)]
                          ELSE profiles)
                    ELSE [profiles EXCEPT ![c] = NoRow]
     /\ UNCHANGED <<now, orders, jobs, nextJob, notes, events, delivered,
                    cancelDone, issued, rw, cw>>

\* ---------------------------------------- GET /api/cron/retry-pending
\* where: status PENDING, attempts < maxRetries, scheduledAt <= now
Due(j) ==
  /\ jobs[j] # NoRow
  /\ jobs[j].status = "PENDING"
  /\ jobs[j].attempts < maxRetries
  /\ jobs[j].scheduledAt <= now

\* orderBy scheduledAt asc (rows of equal scheduledAt in id order)
Before(a, b) ==
  \/ jobs[a].scheduledAt < jobs[b].scheduledAt
  \/ jobs[a].scheduledAt = jobs[b].scheduledAt /\ a < b

RECURSIVE Sorted(_)
Sorted(S) ==
  IF S = {} THEN <<>>
  ELSE LET first == CHOOSE a \in S : \A b \in S \ {a} : Before(a, b)
       IN <<first>> \o Sorted(S \ {first})

\* A selection without the take.
Take_All(q, n) == q

\* take: batchSize
Take(q, n) == IF Len(q) <= n THEN q ELSE SubSeq(q, 1, n)

\* The rows findMany returns, as the invocation holds them from then on.
JobSnapshot(j) ==
  [id |-> j, attempts |-> jobs[j].attempts, shopifyOrderId |-> jobs[j].shopifyOrderId]

pendingJobs ==
  LET ids == Take(Sorted({j \in DOMAIN jobs : Due(j)}), batchSize)
  IN [i \in 1..Len(ids) |-> JobSnapshot(ids[i])]

\* The job the invocation is working on.
Job(w) == Head(rw[w].batch)

\* isFinalFailure, computed from the attempts the invocation read at findMany
isFinalFailure(job) == job.attempts >= maxRetries - 1

\* An engine whose invocation ends with the job it is working on.
NextJob_Abort(w) == IdleWorker

\* End of one iteration of the for loop.
NextJob(w) ==
  LET rest == Tail(rw[w].batch)
  IN [IdleWorker EXCEPT !.batch = rest,
                        !.pc = IF rest = <<>> THEN "cleanup" ELSE "claim"]

\* findMany; an empty result returns at once, touching nothing.
RetryStart(w) ==
  /\ rw[w].pc = "idle"
  /\ pendingJobs # <<>>
  /\ rw' = [rw EXCEPT ![w] = [IdleWorker EXCEPT !.pc = "claim", !.batch = pendingJobs]]
  /\ UNCHANGED <<now, users, profiles, orders, jobs, nextJob, notes, events,
                 delivered, cancelDone, issued, cw>>

\* update job: status PROCESSING, attempts incremented. The update names the
\* row by id alone. A row that is gone makes the update, and the update of
\* the catch block after it, throw: the invocation ends with a 500.
ClaimedJob(row) == [row EXCEPT !.status = "PROCESSING", !.attempts = @ + 1]

RetryClaim(w) ==
  /\ rw[w].pc = "claim"
  /\ IF jobs[Job(w).id] = NoRow
     THEN /\ rw' = [rw EXCEPT ![w] = IdleWorker]
          /\ UNCHANGED jobs
     ELSE /\ jobs' = [jobs EXCEPT ![Job(w).id] = ClaimedJob(@)]
          /\ rw' = [rw EXCEPT ![w].pc = "read"]
  /\ UNCHANGED <<now, users, profiles, orders, nextJob, notes, events,
                 delivered, cancelDone, issued, cw>>

\* A handler that does not look for an invoice already issued.
OrderBranch_NoIssuedTest(order) ==
  IF order = NoRow THEN "notFound"
  ELSE IF \/ order.invoiceStatus = "FOREIGN"
          \/ (/\ users[order.userId].countryCode # NULL
              /\ users[order.userId].countryCode # "IT") THEN "foreign"
  ELSE IF ~order.hasVatProfile \/ profiles[order.userId] = NoRow THEN "noProfile"
  ELSE "issue"

\* The branch taken on the order row read with its user and billing profile.
OrderBranch(order) ==
  IF order = NoRow THEN "notFound"
  ELSE IF order.invoiceStatus = "ISSUED" THEN "alreadyIssued"
  ELSE IF \/ order.invoiceStatus = "FOREIGN"
          \/ (users[order.userId].countryCode # NULL
              /\ users[order.userId].countryCode # "IT") THEN "foreign"
  ELSE IF ~order.hasVatProfile \/ profiles[order.userId] = NoRow THEN "noProfile"
  ELSE "issue"

\* An engine that issues again for an order it finds ISSUED.
RetryBranchPc_Reissue(branch) ==
  CASE branch = "notFound" -> "fail"
    [] branch = "alreadyIssued" -> "issue"
    [] branch = "foreign" -> "foreign"
    [] branch = "noProfile" -> "fail"
    [] branch = "issue" -> "issue"

\* An engine that sends the order of a foreign customer to the issuer.
RetryBranchPc_IssueForeign(branch) ==
  CASE branch = "notFound" -> "fail"
    [] branch = "alreadyIssued" -> "complete"
    [] branch = "foreign" -> "issue"
    [] branch = "noProfile" -> "fail"
    [] branch = "issue" -> "issue"

RetryBranchPc(branch) ==
  CASE branch = "notFound" -> "fail"
    [] branch = "alreadyIssued" -> "complete"
    [] branch = "foreign" -> "foreign"
    [] branch = "noProfile" -> "fail"
    [] branch = "issue" -> "issue"

RetryBranchError(branch) ==
  CASE branch = "notFound" -> "Order not found"
    [] branch = "noProfile" -> "Customer missing valid billing profile"
    [] OTHER -> NULL

\* findUnique order
RetryRead(w) ==
  LET order == orders[Job(w).shopifyOrderId]
      branch == OrderBranch(order)
  IN /\ rw[w].pc = "read"
     /\ rw' = [rw EXCEPT ![w].pc = RetryBranchPc(branch),
                         ![w].errorMessage = RetryBranchError(branch),
                         ![w].snap = IF order = NoRow THEN NULL ELSE order.invoiceStatus]
     /\ UNCHANGED <<now, users, profiles, orders, jobs, nextJob, notes, events,
                    delivered, cancelDone, issued, cw>>

\* update order: FOREIGN
RetryForeign(w) ==
  /\ rw[w].pc = "foreign"
  /\ orders' = [orders EXCEPT ![Job(w).shopifyOrderId] =
                  [@ EXCEPT !.invoiceStatus = "FOREIGN", !.lastError = NULL]]
  /\ rw' = [rw EXCEPT ![w].pc = "complete"]
  /\ UNCHANGED <<now, users, profiles, jobs, nextJob, notes, events,
                 delivered, cancelDone, issued, cw>>

\* buildInvoiceData, then openAPIClient.issueInvoice: it answers or throws.
RetryIssue(w, ok) ==
  LET o == Job(w).shopifyOrderId
  IN /\ rw[w].pc = "issue"
     /\ IF ok
        THEN /\ issued' = [issued EXCEPT ![o] = Bump(@)]
             /\ rw' = [rw EXCEPT ![w].pc = "writeIssued",
                                 ![w].resultId = Bump(issued[o]),
                                 ![w].resultDate = now]
        ELSE /\ rw' = [rw EXCEPT ![w].pc = "catch",
                                 ![w].errorMessage = "OpenAPI SDI error"]
             /\ UNCHANGED issued
     /\ UNCHANGED <<now, users, profiles, orders, jobs, nextJob, notes, events,
                    delivered, cancelDone, cw>>

\* update order: ISSUED with the invoice id and date
IssuedOrder_StatusOnly(row, id, date) ==
  [row EXCEPT !.invoiceStatus = "ISSUED", !.lastError = NULL]

IssuedOrder(row, id, date) ==
  [row EXCEPT !.invoiceStatus = "ISSUED", !.invoiceId = id,
              !.invoiceDate = date, !.lastError = NULL]

RetryWriteIssued(w) ==
  /\ rw[w].pc = "writeIssued"
  /\ orders' = [orders EXCEPT ![Job(w).shopifyOrderId] =
                  IssuedOrder(@, rw[w].resultId, rw[w].resultDate)]
  /\ rw' = [rw EXCEPT ![w].pc = "complete"]
  /\ UNCHANGED <<now, users, profiles, jobs, nextJob, notes, events,
                 delivered, cancelDone, issued, cw>>

\* success: update job COMPLETED
RetryComplete(w) ==
  /\ rw[w].pc = "complete"
  /\ IF jobs[Job(w).id] = NoRow
     THEN /\ rw' = [rw EXCEPT ![w] = IdleWorker]
          /\ UNCHANGED jobs
     ELSE /\ jobs' = [jobs EXCEPT ![Job(w).id] =
                        [@ EXCEPT !.status = "COMPLETED", !.processedAt = now,
                                  !.lastError = NULL]]
          /\ rw' = [rw EXCEPT ![w] = NextJob(w)]
  /\ UNCHANGED <<now, users, profiles, orders, nextJob, notes, events,
                 delivered, cancelDone, issued, cw>>

\* A failure update whose delay grows with the attempts made.
FailedJob_Backoff(row, final, message, t) ==
  [row EXCEPT !.status = IF final THEN "FAILED" ELSE "PENDING",
              !.lastError = message,
              !.scheduledAt = IF final THEN @ ELSE t + RetryDelayMinutes * row.attempts]

\* The failure update of a job, shared by the else branch and the catch block.
FailedJob(row, final, message, t) ==
  [row EXCEPT !.status = IF final THEN "FAILED" ELSE "PENDING",
              !.lastError = message,
              !.scheduledAt = IF final THEN @ ELSE t + RetryDelayMinutes]

\* failure message: update job, then (RetryOrderError) the order
RetryFail(w) ==
  /\ rw[w].pc = "fail"
  /\ IF jobs[Job(w).id] = NoRow
     THEN /\ rw' = [rw EXCEPT ![w] = IdleWorker]
          /\ UNCHANGED jobs
     ELSE /\ jobs' = [jobs EXCEPT ![Job(w).id] =
                        FailedJob(@, isFinalFailure(Job(w)), rw[w].errorMessage, now)]
          /\ rw' = [rw EXCEPT ![w] = IF isFinalFailure(Job(w))
                                     THEN [@ EXCEPT !.pc = "orderError"]
                                     ELSE NextJob(w)]
  /\ UNCHANGED <<now, users, profiles, orders, nextJob, notes, events,
                 delivered, cancelDone, issued, cw>>

\* updateMany orders where shopifyOrderId: ERROR with the message
RetryOrderError(w) ==
  LET o == Job(w).shopifyOrderId
  IN /\ rw[w].pc = "orderError"
     /\ orders' = IF orders[o] = NoRow THEN orders
                  ELSE [orders EXCEPT ![o] =
                          [@ EXCEPT !.invoiceStatus = "ERROR",
                                    !.lastError = rw[w].errorMessage]]
     /\ rw' = [rw EXCEPT ![w] = NextJob(w)]
     /\ UNCHANGED <<now, users, profiles, jobs, nextJob, notes, events,
                    delivered, cancelDone, issued, cw>>

\* catch block: update job; the order is not written
RetryCatch(w) ==
  /\ rw[w].pc = "catch"
  /\ IF jobs[Job(w).id] = NoRow
     THEN /\ rw' = [rw EXCEPT ![w] = IdleWorker]
          /\ UNCHANGED jobs
     ELSE /\ jobs' = [jobs EXCEPT ![Job(w).id] =
                        FailedJob(@, isFinalFailure(Job(w)), rw[w].errorMessage, now)]
          /\ rw' = [rw EXCEPT ![w] = NextJob(w)]
  /\ UNCHANGED <<now, users, profiles, orders, nextJob, notes, events,
                 delivered, cancelDone, issued, cw>>

\* deleteMany: COMPLETED or FAILED jobs with processedAt older than 7 days
Purged(row) ==
  /\ row # NoRow
  /\ row.status \in {"COMPLETED", "FAILED"}
  /\ row.processedAt # NullNum
  /\ row.processedAt < now - CleanupAgeMinutes

RetryCleanup(w) ==
  /\ rw[w].pc = "cleanup"
  /\ jobs' = [j \in JobIds |-> IF Purged(jobs[j]) THEN NoRow ELSE jobs[j]]
  /\ rw' = [rw EXCEPT ![w] = IdleWorker]
  /\ UNCHANGED <<now, users, profiles, orders, nextJob, notes, events,
                 delivered, cancelDone, issued, cw>>

\* findMany finds no due job: the handler is at its early return.
RetryEmpty(w) ==
  /\ rw[w].pc = "idle"
  /\ pendingJobs = <<>>
  /\ rw' = [rw EXCEPT ![w].pc = "noJobs"]
  /\ UNCHANGED <<now, users, profiles, orders, jobs, nextJob, notes, events,
                 delivered, cancelDone, issued, cw>>

\* return { success: true, message: 'No pending jobs to process' }
RetryReturn(w) ==
  /\ rw[w].pc = "noJobs"
  /\ rw' = [rw EXCEPT ![w] = IdleWorker]
  /\ UNCHANGED <<now, users, profiles, orders, jobs, nextJob, notes, events,
                 delivered, cancelDone, issued, cw>>

\* The invocation dies while the issuer call is in flight: fetch has no
\* timeout, and a call that does not return ends with the platform killing
\* the function. Nothing is written.
RetryCrash(w) ==
  /\ rw[w].pc = "issue"
  /\ rw' = [rw EXCEPT ![w] = IdleWorker]
  /\ UNCHANGED <<now, users, profiles, orders, jobs, nextJob, notes, events,
                 delivered, cancelDone, issued, cw>>

Retry(w) ==
  \/ RetryStart(w)
  \/ RetryClaim(w)
  \/ RetryRead(w)
  \/ RetryForeign(w)
  \/ \E ok \in BOOLEAN : RetryIssue(w, ok)
  \/ RetryWriteIssued(w)
  \/ RetryComplete(w)
  \/ RetryFail(w)
  \/ RetryOrderError(w)
  \/ RetryCatch(w)
  \/ RetryCleanup(w)

\* ------------------------------------ POST /api/webhooks/orders/updated
\* The id column of an order row, and its shopifyOrderId column.
InternalId(o) == <<"id", o>>

Respond(d, resp) == [cw EXCEPT ![d].pc = "respond", ![d].resp = resp]

\* A handler that treats every order without a CANCELLED status as invoiced.
CancelBranchPc_AlwaysNote(currentStatus) ==
  IF currentStatus = "CANCELLED" THEN "respond" ELSE "findNote"

\* The branch taken on the invoiceStatus read.
CancelBranchPc(currentStatus) ==
  IF currentStatus \in {"CORRISPETTIVO", "FOREIGN"} THEN "cancelOnly"
  ELSE IF currentStatus = "ISSUED" THEN "findNote"
  ELSE IF currentStatus \in {"PENDING", "ERROR"} THEN "cancelOnly"
  ELSE "respond"

\* findUnique order, then the checks up to the first write. `seen` is
\* currentStatus, the invoiceStatus the handler read.
CancelReceive(d, o, isCancelled, reason) ==
  /\ cw[d].pc = "idle"
  /\ cw' = IF orders[o] = NoRow
           THEN [cw EXCEPT ![d] = [pc |-> "respond", order |-> o, reason |-> reason,
                                   seen |-> NULL, resp |-> "Order not found"]]
           ELSE IF ~isCancelled
           THEN [cw EXCEPT ![d] = [pc |-> "respond", order |-> o, reason |-> reason,
                                   seen |-> NULL,
                                   resp |-> "Order updated but not cancelled"]]
           ELSE [cw EXCEPT ![d] =
                   [pc |-> CancelBranchPc(orders[o].invoiceStatus),
                    order |-> o, reason |-> reason,
                    seen |-> orders[o].invoiceStatus,
                    resp |-> IF orders[o].invoiceStatus = "CANCELLED"
                             THEN "already_cancelled" ELSE NULL]]
  /\ UNCHANGED <<now, users, profiles, orders, jobs, nextJob, notes, events,
                 delivered, cancelDone, issued, rw>>

CancelledOrder(row, text, reason) ==
  [row EXCEPT !.invoiceStatus = "CANCELLED",
              !.lastError = text \o OrElse(reason, "N/A")]

\* CORRISPETTIVO, FOREIGN, PENDING, ERROR: update order CANCELLED
CancelOnly(d) ==
  /\ cw[d].pc = "cancelOnly"
  /\ orders' = [orders EXCEPT ![cw[d].order] =
                  CancelledOrder(@, "Ordine annullato: ", cw[d].reason)]
  /\ cw' = Respond(d, "cancelled")
  /\ UNCHANGED <<now, users, profiles, jobs, nextJob, notes, events,
                 delivered, cancelDone, issued, rw>>

\* creditNote.findFirst({ where: { orderId: order.id } })
existingCreditNote(o) == \E i \in 1..Len(notes) : notes[i].orderId = InternalId(o)

CancelFindNote(d) ==
  /\ cw[d].pc = "findNote"
  /\ cw' = [cw EXCEPT ![d].pc = IF existingCreditNote(cw[d].order)
                                THEN "setExisting" ELSE "createNote"]
  /\ UNCHANGED <<now, users, profiles, orders, jobs, nextJob, notes, events,
                 delivered, cancelDone, issued, rw>>

\* A webhook that marks the credit note it found as issued.
CancelSetExisting_IssuesNote(d) ==
  /\ cw[d].pc = "setExisting"
  /\ orders' = [orders EXCEPT ![cw[d].order] =
                  CancelledOrder(@, "Ordine annullato con nota di credito esistente: ",
                                 cw[d].reason)]
  /\ notes' = [i \in 1..Len(notes) |->
                 IF notes[i].orderId = InternalId(cw[d].order)
                 THEN [notes[i] EXCEPT !.status = "ISSUED"] ELSE notes[i]]
  /\ cw' = Respond(d, "credit_note_created")
  /\ UNCHANGED <<now, users, profiles, jobs, nextJob, events,
                 delivered, cancelDone, issued, rw>>

\* update order CANCELLED, the credit note being there already
CancelSetExisting(d) ==
  /\ cw[d].pc = "setExisting"
  /\ orders' = [orders EXCEPT ![cw[d].order] =
                  CancelledOrder(@, "Ordine annullato con nota di credito esistente: ",
                                 cw[d].reason)]
  /\ cw' = Respond(d, "credit_note_created")
  /\ UNCHANGED <<now, users, profiles, jobs, nextJob, notes, events,
                 delivered, cancelDone, issued, rw>>

\* A credit note that records the reason as the event gives it, with no
\* default text and no amount.
NewCreditNote_Raw(o, reason) ==
  [orderId |-> InternalId(o), reason |-> reason, totalAmount |-> 0, status |-> "PENDING"]

\* creditNote.create; order.totalPrice is the total read by findUnique, which
\* no operation changes once the row exists.
NewCreditNote(o, reason) ==
  [orderId |-> InternalId(o), reason |-> OrElse(reason, "Ordine annullato"),
   totalAmount |-> OrZero(orders[o].totalPrice), status |-> "PENDING"]

CancelCreateNote(d) ==
  /\ cw[d].pc = "createNote"
  /\ Len(notes) < MaxNotes
  /\ notes' = Append(notes, NewCreditNote(cw[d].order, cw[d].reason))
  /\ cw' = [cw EXCEPT ![d].pc = "setCreated"]
  /\ UNCHANGED <<now, users, profiles, orders, jobs, nextJob, events,
                 delivered, cancelDone, issued, rw>>

\* update order CANCELLED after the credit note was created
CancelSetCreated(d) ==
  /\ cw[d].pc = "setCreated"
  /\ orders' = [orders EXCEPT ![cw[d].order] =
                  CancelledOrder(@, "Ordine annullato - Nota di credito creata: ",
                                 cw[d].reason)]
  /\ cw' = Respond(d, "credit_note_created")
  /\ UNCHANGED <<now, users, profiles, jobs, nextJob, notes, events,
                 delivered, cancelDone, issued, rw>>

\* A database write of the handler throws: the catch block answers 500 and
\* what was written before stays written.
CancelThrow(d) ==
  /\ cw[d].pc \in {"cancelOnly", "createNote", "setExisting", "setCreated"}
  /\ cw' = Respond(d, "Internal server error")
  /\ UNCHANGED <<now, users, profiles, orders, jobs, nextJob, notes, events,
                 delivered, cancelDone, issued, rw>>

\* The responses of a cancellation event handled to the end.
CancelResponses == {"cancelled", "credit_note_created", "already_cancelled"}

\* The response is sent.
CancelRespond(d) ==
  /\ cw[d].pc = "respond"
  /\ cw' = [cw EXCEPT ![d] = IdleDelivery]
  /\ cancelDone' = IF cw[d].resp \in CancelResponses
                   THEN cancelDone \cup {cw[d].order} ELSE cancelDone
  /\ UNCHANGED <<now, users, profiles, orders, jobs, nextJob, notes, events,
                 delivered, issued, rw>>

Cancel(d) ==
  \/ \E o \in OrderIds, isCancelled \in BOOLEAN, reason \in Reasons :
       CancelReceive(d, o, isCancelled, reason)
  \/ CancelOnly(d)
  \/ CancelFindNote(d)
  \/ CancelSetExisting(d)
  \/ CancelCreateNote(d)
  \/ CancelSetCreated(d)
  \/ CancelThrow(d)
  \/ CancelRespond(d)

\* ---------------------------------------- POST /api/credit-notes/issue
\* An endpoint that does not look at the country of the customer.
CreditNoteBranch_NoForeignTest(order) ==
  IF order = NoRow THEN "notFound"
  ELSE IF order.invoiceStatus # "ISSUED" THEN "notIssued"
  ELSE IF ~order.hasVatProfile \/ profiles[order.userId] = NoRow THEN "noProfile"
  ELSE "issue"


\* The branch of the manual credit-note endpoint on the order row it read.
CreditNoteBranch(order) ==
  IF order = NoRow THEN "notFound"
  ELSE IF order.invoiceStatus # "ISSUED" THEN "notIssued"
  ELSE IF users[order.userId].countryCode # NULL
          /\ users[order.userId].countryCode # "IT" THEN "foreign"
  ELSE IF ~order.hasVatProfile \/ profiles[order.userId] = NoRow THEN "noProfile"
  ELSE "issue"

\* creditNote.create of the endpoint: the note is keyed by shopifyOrderId.
ManualNote(o, status) ==
  [orderId |-> <<"shopifyOrderId", o>>, reason |-> "refund",
   totalAmount |-> orders[o].totalPrice, status |-> status]

\* Manual credit note for order o; `ok`: issueCreditNote answers rather than
\* throws. The clearinghouse is called in the branch "issue" alone.
ManualCreditNote(o, ok) ==
  LET branch == CreditNoteBranch(orders[o])
  IN /\ CASE branch = "foreign" ->
               /\ Len(notes) < MaxNotes
               /\ notes' = Append(notes, ManualNote(o, "FOREIGN"))
          [] branch = "issue" /\ ok ->
               /\ Len(notes) < MaxNotes
               /\ notes' = Append(notes, ManualNote(o, "ISSUED"))
          [] OTHER -> UNCHANGED notes
     /\ UNCHANGED <<now, users, profiles, orders, jobs, nextJob, events,
                    delivered, cancelDone, issued, rw, cw>>

\* ------------------------------------------- POST /api/invoices/issue
\* The HTTP status the handler answers with.
IssueResponse(order, ok) ==
  LET branch == OrderBranch(order)
  IN CASE branch = "notFound" -> 404
       [] branch = "alreadyIssued" -> 400
       [] branch = "foreign" -> 200
       [] branch = "noProfile" -> 400
       [] branch = "issue" /\ ok -> 200
       [] branch = "issue" /\ ~ok -> 500

\* Manual issuance of one order; `ok`: issueInvoice answers rather than throws.
ManualIssue(o, ok) ==
  LET order == orders[o]
      branch == OrderBranch(order)
  IN /\ CASE branch = "notFound" -> UNCHANGED <<orders, issued>>
          [] branch = "alreadyIssued" -> UNCHANGED <<orders, issued>>
          [] branch = "foreign" ->
               /\ orders' = [orders EXCEPT ![o] =
                               [@ EXCEPT !.invoiceStatus = "FOREIGN", !.lastError = NULL]]
               /\ UNCHANGED issued
          [] branch = "noProfile" ->
               /\ orders' = [orders EXCEPT ![o] =
                               [@ EXCEPT !.invoiceStatus = "ERROR",
                                         !.lastError = "Customer missing valid billing profile"]]
               /\ UNCHANGED issued
          [] branch = "issue" /\ ok ->
               /\ orders' = [orders EXCEPT ![o] = IssuedOrder(@, Bump(issued[o]), now)]
               /\ issued' = [issued EXCEPT ![o] = Bump(@)]
          [] branch = "issue" /\ ~ok ->
               /\ orders' = [orders EXCEPT ![o] =
                               [@ EXCEPT !.invoiceStatus = "ERROR",
                                         !.lastError = "OpenAPI SDI error"]]
               /\ UNCHANGED issued
     /\ UNCHANGED <<now, users, profiles, jobs, nextJob, notes, events,
                    delivered, cancelDone, rw, cw>>

\* --------------------------------------------- POST /api/admin/orders
\* A reset that does not filter on the status of the selected orders.
ResetErrors_AnyStatus(orderIds) ==
  /\ orders' = [o \in OrderIds |->
                  IF o \in orderIds /\ orders[o] # NoRow
                  THEN [orders[o] EXCEPT !.invoiceStatus = "PENDING", !.lastError = NULL]
                  ELSE orders[o]]
  /\ UNCHANGED <<now, users, profiles, jobs, nextJob, notes, events,
                 delivered, cancelDone, issued, rw, cw>>

\* action reset_errors over the selected orders
ResetErrors(orderIds) ==
  /\ orders' = [o \in OrderIds |->
                  IF o \in orderIds /\ orders[o] # NoRow /\ orders[o].invoiceStatus = "ERROR"
                  THEN [orders[o] EXCEPT !.invoiceStatus = "PENDING", !.lastError = NULL]
                  ELSE orders[o]]
  /\ UNCHANGED <<now, users, profiles, jobs, nextJob, notes, events,
                 delivered, cancelDone, issued, rw, cw>>

\* action retry_invoices: one new job per selected order that is PENDING
RetryInvoices(orderIds) ==
  LET os == Sorted2Seq({o \in orderIds : orders[o] # NoRow
                                          /\ orders[o].invoiceStatus = "PENDING"})
      r == EnqueueAll(jobs, nextJob, os, now)
  IN /\ nextJob + Len(os) <= MaxJobs + 1
     /\ jobs' = r[1]
     /\ nextJob' = r[2]
     /\ UNCHANGED <<now, users, profiles, orders, notes, events,
                    delivered, cancelDone, issued, rw, cw>>

\* ----------------------------- POST /api/cron/retry-pending (manual retry)
RequeuedJob(row) ==
  [row EXCEPT !.status = "PENDING", !.attempts = 0, !.lastError = NULL,
              !.scheduledAt = now]

\* body { jobId }
ManualRetryJob(j) ==
  /\ jobs[j] # NoRow
  /\ jobs' = [jobs EXCEPT ![j] = RequeuedJob(@)]
  /\ UNCHANGED <<now, users, profiles, orders, nextJob, notes, events,
                 delivered, cancelDone, issued, rw, cw>>

\* The decimal digits of an id, as the text the payload and the body carry.
RECURSIVE Digits(_)
Digits(n) == IF n < 10 THEN <<n>> ELSE Append(Digits(n \div 10), n % 10)

\* s occurs in t.
Infix(s, t) ==
  \E i \in 0..(Len(t) - Len(s)) : SubSeq(t, i + 1, i + Len(s)) = s

\* where type 'invoice', payload { path: [], string_contains: shopifyOrderId }:
\* the text of the payload { shopifyOrderId } contains the id of the body.
PayloadMatch(o) ==
  {j \in DOMAIN jobs : /\ jobs[j] # NoRow
                        /\ jobs[j].type = "invoice"
                        /\ Infix(Digits(o), Digits(jobs[j].shopifyOrderId))}

\* The rows the filter can select: those whose payload text contains the id,
\* or none, where the database takes a string filter to fail on a payload
\* that is an object and not a string.
PayloadFilter(o) == {PayloadMatch(o), {}}

\* body { shopifyOrderId }: updateMany over the rows of the filter
ManualRetryOrder(o) ==
  /\ \E matched \in PayloadFilter(o) :
       jobs' = [j \in DOMAIN jobs |-> IF j \in matched THEN RequeuedJob(jobs[j])
                                       ELSE jobs[j]]
  /\ UNCHANGED <<now, users, profiles, orders, nextJob, notes, events,
                 delivered, cancelDone, issued, rw, cw>>

\* ------------------------------- POST /api/profile/me, POST mark-business
\* The orders the re-classification selects: the customer's PENDING orders.
PendingOrdersOf(c) ==
  {o \in OrderIds : orders[o] # NoRow /\ orders[o].userId = c
                    /\ orders[o].invoiceStatus = "PENDING"}

\* updateMany where userId, invoiceStatus PENDING: hasVatProfile true
FlaggedOrders(c) ==
  [o \in OrderIds |-> IF o \in PendingOrdersOf(c)
                      THEN [orders[o] EXCEPT !.hasVatProfile = TRUE]
                      ELSE orders[o]]

\* The re-classification both endpoints run after the upsert when `triggers`
\* holds: flag the PENDING orders, then findMany the PENDING orders with
\* hasVatProfile and create one job for each of them.
Reclassify_AllOrders(c, triggers) ==
  LET all == {o \in OrderIds : orders[o] # NoRow /\ orders[o].userId = c}
      os == Sorted2Seq(all)
      r == EnqueueAll(jobs, nextJob, os, now)
  IN IF triggers
     THEN /\ nextJob + Len(os) <= MaxJobs + 1
          /\ orders' = [o \in OrderIds |->
                          IF o \in all THEN [orders[o] EXCEPT !.hasVatProfile = TRUE]
                          ELSE orders[o]]
          /\ jobs' = r[1]
          /\ nextJob' = r[2]
     ELSE UNCHANGED <<orders, jobs, nextJob>>

Reclassify(c, triggers) ==
  LET os == Sorted2Seq(PendingOrdersOf(c))
      r == EnqueueAll(jobs, nextJob, os, now)
  IN IF triggers
     THEN /\ nextJob + Len(os) <= MaxJobs + 1
          /\ orders' = FlaggedOrders(c)
          /\ jobs' = r[1]
          /\ nextJob' = r[2]
     ELSE UNCHANGED <<orders, jobs, nextJob>>

\* The bodies sent to the profile endpoint: which of vatNumber and taxCode
\* the body carries, its isBusiness and its countryCode.
ProfileBodies ==
  { [isBusiness |-> TRUE,  vatNumber |-> TRUE,  taxCode |-> FALSE, countryCode |-> "IT"],
    [isBusiness |-> TRUE,  vatNumber |-> FALSE, taxCode |-> TRUE,  countryCode |-> "IT"],
    [isBusiness |-> FALSE, vatNumber |-> TRUE,  taxCode |-> FALSE, countryCode |-> "FR"],
    [isBusiness |-> FALSE, vatNumber |-> FALSE, taxCode |-> FALSE, countryCode |-> "IT"] }

\* billingProfile.upsert of both endpoints: isBusiness is always written, a
\* vatNumber or taxCode the body does not carry is left as it is.
SavedProfile(old, isBusiness, body) ==
  IF old = NoRow
  THEN [isBusiness |-> isBusiness, vatNumber |-> body.vatNumber, taxCode |-> body.taxCode]
  ELSE [isBusiness |-> isBusiness,
        vatNumber |-> (body.vatNumber \/ old.vatNumber),
        taxCode |-> (body.taxCode \/ old.taxCode)]

\* POST /api/profile/me: a vatNumber in the body forces isBusiness.
SaveProfile(c, body) ==
  LET isBusiness == body.isBusiness \/ body.vatNumber
  IN /\ users[c] # NoRow
     /\ profiles' = [profiles EXCEPT ![c] = SavedProfile(@, isBusiness, body)]
     /\ Reclassify(c, isBusiness /\ body.vatNumber /\ body.countryCode = "IT")
     /\ UNCHANGED <<now, users, notes, events, delivered, cancelDone, issued, rw, cw>>

\* The bodies sent to mark-business.
MarkBodies ==
  { [isBusiness |-> TRUE,  vatNumber |-> TRUE,  taxCode |-> FALSE],
    [isBusiness |-> TRUE,  vatNumber |-> FALSE, taxCode |-> TRUE],
    [isBusiness |-> FALSE, vatNumber |-> FALSE, taxCode |-> FALSE] }

\* POST mark-business (admin): the country tested is the user's.
MarkBusiness(c, body) ==
  /\ users[c] # NoRow
  /\ profiles' = [profiles EXCEPT ![c] = SavedProfile(@, body.isBusiness, body)]
  /\ Reclassify(c, body.isBusiness /\ body.vatNumber /\ users[c].countryCode = "IT")
  /\ UNCHANGED <<now, users, notes, events, delivered, cancelDone, issued, rw, cw>>

\* ------------------------------------------------------- specifications
\* Deliveries of order-creation events, redeliveries included.
Deliver == \E o \in OrderIds : \E e \in OrderEvents(o) : OrderCreate(o, e)

\* Deliveries of order-creation events, each event once.
DeliverOnce ==
  \E o \in OrderIds : \E e \in OrderEvents(o) : delivered[o] = 0 /\ OrderCreate(o, e)

\* The customer-update events of the model: the customer stops being a
\* business, or moves abroad keeping its VAT number.
CustomerInputs ==
  { [country |-> "IT", hasCompany |-> FALSE, valid |-> TRUE,
     m |-> [throws |-> FALSE, partitaIva |-> FALSE, codiceFiscale |-> FALSE,
            ragioneSociale |-> FALSE]],
    [country |-> "FR", hasCompany |-> FALSE, valid |-> TRUE,
     m |-> [throws |-> FALSE, partitaIva |-> TRUE, codiceFiscale |-> FALSE,
            ragioneSociale |-> FALSE]] }

CustomerChange ==
  \E c \in Customers, i \in CustomerInputs :
    CustomerUpdate(c, i.country, i.m, i.hasCompany, i.valid)

Operator ==
  \/ \E S \in SUBSET OrderIds : ResetErrors(S)
  \/ \E S \in SUBSET OrderIds : RetryInvoices(S)

ManualRetry ==
  \/ \E j \in JobIds : ManualRetryJob(j)
  \/ \E o \in OrderIds : ManualRetryOrder(o)

Issue == \E o \in OrderIds, ok \in BOOLEAN : ManualIssue(o, ok)

\* Every event once, manual issuance, and one cancellation delivery at a time.
Next ==
  \/ DeliverOnce
  \/ Issue
  \/ Cancel("d1")

Spec == Init /\ [][Next]_vars

\* Redelivered order-creation events, manual issuance, the operator's batch
\* actions, and one cancellation delivery at a time.
NextRedeliver ==
  \/ Deliver
  \/ Issue
  \/ Operator
  \/ Cancel("d1")

SpecRedeliver == Init /\ [][NextRedeliver]_vars

\* The retry engine invoked again and again, one invocation at a time.
NextRetry ==
  \/ Tick
  \/ Deliver
  \/ CustomerChange
  \/ ManualRetry
  \/ Retry("w1")

SpecRetry == Init /\ [][NextRetry]_vars

\* Two retry engine invocations running at the same time.
NextConcurrent ==
  \/ Tick
  \/ DeliverOnce
  \/ CustomerChange
  \/ Retry("w1")
  \/ Retry("w2")

SpecConcurrent == Init /\ [][NextConcurrent]_vars

\* One retry engine invocation and one cancellation delivery at the same time.
NextRace ==
  \/ Tick
  \/ DeliverOnce
  \/ CustomerChange
  \/ Retry("w1")
  \/ Cancel("d1")

SpecRace == Init /\ [][NextRace]_vars

\* Two deliveries of cancellation events at the same time.
NextCancel ==
  \/ DeliverOnce
  \/ Issue
  \/ Cancel("d1")
  \/ Cancel("d2")

SpecCancel == Init /\ [][NextCancel]_vars

\* Manual credit notes for every order.
CreditNote == \E o \in OrderIds, ok \in BOOLEAN : ManualCreditNote(o, ok)

\* Credit notes by the manual endpoint and by the cancellation webhook.
NextNotes ==
  \/ DeliverOnce
  \/ CustomerChange
  \/ Issue
  \/ CreditNote
  \/ Cancel("d1")

SpecNotes == Init /\ [][NextNotes]_vars

\* The profile endpoint and mark-business, for every customer and body.
Profile ==
  \E c \in Customers :
    \/ \E body \in ProfileBodies : SaveProfile(c, body)
    \/ \E body \in MarkBodies : MarkBusiness(c, body)

\* Classification of new orders and re-classification of stored ones.
NextClassify ==
  \/ DeliverOnce
  \/ CustomerChange
  \/ Profile
  \/ Issue

SpecClassify == Init /\ [][NextClassify]_vars

\* Every operation on orders outside the retry engine, each event once.
NextLifecycle ==
  \/ DeliverOnce
  \/ CustomerChange
  \/ Profile
  \/ Issue
  \/ Operator
  \/ Cancel("d1")

SpecLifecycle == Init /\ [][NextLifecycle]_vars

\* The same operations with redeliveries, when no cancellation event arrives.
NextUncancelled ==
  \/ Deliver
  \/ CustomerChange
  \/ Profile
  \/ Issue
  \/ Operator

SpecUncancelled == Init /\ [][NextUncancelled]_vars

\* One retry engine invocation at a time and nothing else writing the jobs.
NextEngine ==
  \/ Tick
  \/ DeliverOnce
  \/ CustomerChange
  \/ Retry("w1")

SpecEngine == Init /\ [][NextEngine]_vars

\* One retry engine invocation over batches of more than one job: the
\* order-creation event is redelivered and adds a job each time.
NextBatch ==
  \/ Tick
  \/ Deliver
  \/ CustomerChange
  \/ Retry("w1")

SpecBatch == Init /\ [][NextBatch]_vars

\* The selection of a batch from a queue of QueueLen jobs at time
\* RetryDelayMinutes. Each row is due since time 0, due since now after two
\* attempts, or not selectable: terminal, out of attempts, or scheduled later.
\* The first FixedRows rows are of the second kind in every queue.
FixedRows == 4

QueueRow(j, kind) ==
  CASE kind = "early" -> NewJob(1, 0)
    [] kind = "late" ->
         [NewJob(1, RetryDelayMinutes) EXCEPT !.attempts = 2,
                                              !.lastError = "OpenAPI SDI error"]
    [] kind = "other" /\ j % 3 = 1 ->
         [NewJob(1, 0) EXCEPT !.status = "COMPLETED", !.attempts = 1, !.processedAt = 0]
    [] kind = "other" /\ j % 3 = 2 ->
         [NewJob(1, 0) EXCEPT !.attempts = maxRetries,
                              !.lastError = "OpenAPI SDI error"]
    [] OTHER -> NewJob(1, 2 * RetryDelayMinutes)

InitSelect ==
  /\ now = RetryDelayMinutes
  /\ users = [c \in Customers |-> [countryCode |-> "IT"]]
  /\ profiles = [c \in Customers |->
                   [isBusiness |-> TRUE, vatNumber |-> TRUE, taxCode |-> FALSE]]
  /\ orders = [o \in OrderIds |->
                 [userId |-> "c1", hasVatProfile |-> TRUE, invoiceStatus |-> "PENDING",
                  totalPrice |-> TotalOf(o), invoiceId |-> NullNum,
                  invoiceDate |-> NullNum, lastError |-> NULL]]
  /\ \E kinds \in [1..QueueLen -> {"early", "late", "other"}] :
       /\ \A j \in 1..FixedRows : kinds[j] = "late"
       /\ jobs = [j \in 1..QueueLen |-> QueueRow(j, kinds[j])]
  /\ nextJob = QueueLen + 1
  /\ notes = <<>>
  /\ events = [o \in OrderIds |-> [customer |-> "c1", country |-> "IT", total |-> TotalOf(o)]]
  /\ delivered = [o \in OrderIds |-> 2]
  /\ cancelDone = {}
  /\ issued = [o \in OrderIds |-> 0]
  /\ rw = [w \in Workers |-> IdleWorker]
  /\ cw = [d \in Deliveries |-> IdleDelivery]

NextSelect == RetryStart("w1")

SpecSelect == InitSelect /\ [][NextSelect]_vars

\* The engine over a queue that holds a job whose order has no row (the
\* order was removed from the database, or never stored under that id).
InitOrphan ==
  /\ now = 0
  /\ users = [c \in Customers |-> NoRow]
  /\ profiles = [c \in Customers |-> NoRow]
  /\ orders = [o \in OrderIds |-> NoRow]
  /\ jobs = [j \in JobIds |-> IF j = 1 THEN NewJob(1, 0) ELSE NoRow]
  /\ nextJob = 2
  /\ notes = <<>>
  /\ events = [o \in OrderIds |-> NoRow]
  /\ delivered = [o \in OrderIds |-> 0]
  /\ cancelDone = {}
  /\ issued = [o \in OrderIds |-> 0]
  /\ rw = [w \in Workers |-> IdleWorker]
  /\ cw = [d \in Deliveries |-> IdleDelivery]

SpecOrphan == InitOrphan /\ [][NextEngine]_vars

\* One retry engine invocation next to manual issuance.
NextIssue ==
  \/ NextEngine
  \/ Issue

SpecIssue == Init /\ [][NextIssue]_vars

\* The retry engine over more than a week, invocations that find no due job
\* included.
NextPurge ==
  \/ NextEngine
  \/ Week
  \/ RetryEmpty("w1")
  \/ RetryReturn("w1")

SpecPurge == Init /\ [][NextPurge]_vars

\* Manual retries over a queue of terminal and waiting jobs of two orders,
\* the id of one contained in the id of the other; the order table is not
\* read by these handlers.
RequeueOrders == {1, 11}

RequeueRow(o, kind) ==
  IF kind = "failed"
  THEN [NewJob(o, 0) EXCEPT !.status = "FAILED", !.attempts = maxRetries,
                            !.lastError = "OpenAPI SDI error"]
  ELSE [NewJob(o, MaxTime) EXCEPT !.attempts = 1,
                                  !.lastError = "Customer missing valid billing profile"]

InitRequeue ==
  /\ now = 0
  /\ users = [c \in Customers |-> [countryCode |-> "IT"]]
  /\ profiles = [c \in Customers |-> NoRow]
  /\ orders = [o \in OrderIds |->
                 [userId |-> "c1", hasVatProfile |-> FALSE, invoiceStatus |-> "ERROR",
                  totalPrice |-> TotalOf(o), invoiceId |-> NullNum,
                  invoiceDate |-> NullNum, lastError |-> "OpenAPI SDI error"]]
  /\ \E os \in [JobIds -> RequeueOrders], kinds \in [JobIds -> {"failed", "waiting"}] :
       jobs = [j \in JobIds |-> RequeueRow(os[j], kinds[j])]
  /\ nextJob = MaxJobs + 1
  /\ notes = <<>>
  /\ events = [o \in OrderIds |-> [customer |-> "c1", country |-> "IT", total |-> TotalOf(o)]]
  /\ delivered = [o \in OrderIds |-> 1]
  /\ cancelDone = {}
  /\ issued = [o \in OrderIds |-> 0]
  /\ rw = [w \in Workers |-> IdleWorker]
  /\ cw = [d \in Deliveries |-> IdleDelivery]

RequeueJob == \E j \in JobIds : ManualRetryJob(j)

RequeueOrder == \E o \in RequeueOrders : ManualRetryOrder(o)

NextRequeue ==
  \/ Tick
  \/ RequeueJob
  \/ RequeueOrder
  \/ RetryStart("w1")

SpecRequeue == InitRequeue /\ [][NextRequeue]_vars

\* The retry engine, with the operator resetting errors.
Reset == \E S \in SUBSET OrderIds : ResetErrors(S)

NextReset ==
  \/ NextEngine
  \/ Reset

SpecReset == Init /\ [][NextReset]_vars

\* Manual issuance and manual credit notes, with customers and profiles that
\* change.
NextManualNotes ==
  \/ DeliverOnce
  \/ CustomerChange
  \/ Profile
  \/ Issue
  \/ CreditNote

SpecManualNotes == Init /\ [][NextManualNotes]_vars

\* Cancellations, manual issuance and manual credit notes of the orders of
\* customers that do not change.
NextNoteStatus ==
  \/ DeliverOnce
  \/ Issue
  \/ CreditNote
  \/ Cancel("d1")

SpecNoteStatus == Init /\ [][NextNoteStatus]_vars

\* The retry engine invoked again and again: time passes and an invocation
\* that can take a step takes it.
SpecFair == Init /\ [][NextEngine]_vars /\ WF_vars(Tick) /\ WF_vars(Retry("w1"))

\* The same, with invocations that may die during the issuer call.
NextCrash ==
  \/ NextEngine
  \/ RetryCrash("w1")

SpecCrash == Init /\ [][NextCrash]_vars /\ WF_vars(Tick) /\ WF_vars(Retry("w1"))

\* ------------------------------------------------------------ properties

\* The invocation is past its claim of the job at the head of its batch.
Processing(w) ==
  rw[w].pc \in {"read", "foreign", "issue", "writeIssued", "complete", "fail",
                "orderError", "catch"}

\* The issuer answered this invocation for the job it is working on.
IssuerAnswered(w) == Processing(w) /\ rw[w].resultId # NullNum

\* C1: when two invocations of the retry engine run at the same time, at most
\* one of them holds the claim of a given job, and the issuer is never called
\* with success by both of them for the same job.
C1_ExclusiveClaim ==
  \A a \in Workers, b \in Workers :
    (a # b /\ Processing(a) /\ Processing(b))
      => /\ Job(a).id # Job(b).id
         /\ ~(IssuerAnswered(a) /\ IssuerAnswered(b)
              /\ Job(a).shopifyOrderId = Job(b).shopifyOrderId)

\* C2: once a cancellation made an order CANCELLED, no run of the retry engine
\* goes on to call the issuer for it or to set it ISSUED: an invocation that
\* read the order as CANCELLED is never at the issuer call nor at the write of
\* the ISSUED status.
C2_NoIssueAfterCancel ==
  \A w \in Workers :
    rw[w].pc \in {"issue", "writeIssued"} => rw[w].snap # "CANCELLED"

\* The jobs of an order among the rows js.
JobsIn(js, o) == {j \in JobIds : js[j] # NoRow /\ js[j].shopifyOrderId = o}

\* C3: the second delivery of an order-creation event leaves exactly one
\* snapshot of the order, and at most one job for it unless the delivery added
\* none.
C3_RedeliveryOneSnapshotOneJob ==
  [][\A o \in OrderIds : \A e \in OrderEvents(o) :
       (delivered[o] = 1 /\ OrderCreate(o, e))
         => /\ orders'[o] # NoRow
            /\ (Cardinality(JobsIn(jobs', o)) <= 1 \/ jobs' = jobs)]_vars

\* C4: the delivery of an order-creation event for an order that is stored
\* already leaves the stored invoiceStatus and hasVatProfile as they were.
C4_RedeliveryKeepsStatus ==
  [][\A o \in OrderIds : \A e \in OrderEvents(o) :
       (orders[o] # NoRow /\ OrderCreate(o, e))
         => /\ orders'[o].invoiceStatus = orders[o].invoiceStatus
            /\ orders'[o].hasVatProfile = orders[o].hasVatProfile]_vars

\* The invocation ends its work on a job whose failure is final.
FinalLeave(w) ==
  /\ rw[w].pc \in {"catch", "orderError"}
  /\ isFinalFailure(Job(w))
  /\ rw'[w].pc \in {"claim", "cleanup"}

\* C5: a job whose issuance fails on the last of its maxRetries attempts ends
\* FAILED, with its order in ERROR and a lastError on the order.
C5_FinalFailureMarksOrder ==
  [][\A w \in Workers :
       FinalLeave(w)
         => LET o == Job(w).shopifyOrderId
            IN /\ rw[w].pc = "catch" => jobs'[Job(w).id].status = "FAILED"
               /\ orders'[o] # NoRow
                    => /\ orders'[o].invoiceStatus = "ERROR"
                       /\ orders'[o].lastError # NULL]_vars

\* The writes of the cancellation webhook that set an order CANCELLED.
CancelWrite == \E d \in Deliveries : CancelOnly(d) \/ CancelSetExisting(d) \/ CancelSetCreated(d)

\* The transitions of invoiceStatus the specification allows.
AllowedTransition(o) ==
  LET from == orders[o].invoiceStatus
      to == orders'[o].invoiceStatus
  IN \/ from = to
     \/ from = "PENDING" /\ to \in {"ISSUED", "ERROR"}
     \/ from = "ERROR" /\ to = "PENDING" /\ \E S \in SUBSET OrderIds : ResetErrors(S)
     \/ to = "FOREIGN" /\ \E w \in Workers : RetryForeign(w)
     \/ from # "CANCELLED" /\ to = "CANCELLED" /\ CancelWrite

\* C6: the invoiceStatus of a stored order changes only PENDING to ISSUED,
\* PENDING to ERROR, ERROR to PENDING by the reset of errors, to FOREIGN by the
\* retry engine, and from a status other than CANCELLED to CANCELLED by a
\* cancellation.
C6_AllowedTransitions ==
  [][\A o \in OrderIds : orders[o] # NoRow => AllowedTransition(o)]_vars

\* The cancellation handler d creates a credit note with the given reason, of
\* the order's total and PENDING, and nothing else is added to the notes.
CreatesNote(d, reason) ==
  /\ notes' = Append(notes, notes'[Len(notes')])
  /\ notes'[Len(notes')].orderId = InternalId(cw[d].order)
  /\ notes'[Len(notes')].status = "PENDING"
  /\ notes'[Len(notes')].totalAmount = orders[cw[d].order].totalPrice
  /\ notes'[Len(notes')].reason = reason

\* The last write of the handler that created the note sets the order
\* CANCELLED.
SetsCancelled(d) == orders'[cw[d].order].invoiceStatus = "CANCELLED"

\* C7 as stated: a cancellation of an ISSUED order without a credit note
\* creates exactly one credit note, PENDING, of the order's total, whose reason
\* is the reason of the cancellation, and sets the order CANCELLED.
C7_NoteReasonIsEventReason ==
  [][\A d \in Deliveries :
       /\ CancelCreateNote(d) => CreatesNote(d, cw[d].reason)
       /\ CancelSetCreated(d) => SetsCancelled(d)]_vars

\* C7: a cancellation of an ISSUED order without a credit note creates exactly
\* one credit note, PENDING, of the order's total, whose reason is the reason
\* of the cancellation or "Ordine annullato" when the event gives none or an
\* empty one, and sets the order CANCELLED.
C7_NoteOnCancelOfIssued ==
  [][\A d \in Deliveries :
       /\ (cw[d].pc = "idle" /\ cw'[d].seen = "ISSUED"
             /\ ~existingCreditNote(cw'[d].order))
            => (cw'[d].pc = "findNote" /\ notes' = notes)
       /\ CancelCreateNote(d)
            => CreatesNote(d, IF cw[d].reason \in {NULL, ""} THEN "Ordine annullato"
                              ELSE cw[d].reason)
       /\ CancelSetCreated(d) => SetsCancelled(d)]_vars

\* A cancellation without a reason was handled to the end for an ISSUED
\* order: one note with the default reason, the order CANCELLED.
C7_Witness ==
  \E d \in Deliveries :
    /\ cw[d].pc = "respond"
    /\ cw[d].seen = "ISSUED"
    /\ cw[d].reason = NULL
    /\ cw[d].resp = "credit_note_created"
    /\ Len(notes) = 1
    /\ notes[1].reason = "Ordine annullato"
    /\ notes[1].totalAmount = orders[cw[d].order].totalPrice
    /\ orders[cw[d].order].invoiceStatus = "CANCELLED"

\* C8: the delivery of a cancellation event for an order whose cancellation
\* was handled before creates no credit note, and a cancellation event for an
\* order that is CANCELLED already changes nothing and answers success.
C8_CancelRedelivery ==
  [][\A d \in Deliveries :
       /\ (cw[d].pc # "idle" /\ cw[d].order \in cancelDone /\ cw'[d] # cw[d])
            => notes' = notes
       /\ (cw[d].pc = "idle" /\ cw'[d].seen = "CANCELLED")
            => /\ UNCHANGED dbVars
               /\ cw'[d].pc = "respond"
               /\ cw'[d].resp = "already_cancelled"]_vars

\* The credit notes of an order.
NotesOf(o) == {i \in 1..Len(notes) : notes[i].orderId = InternalId(o)}

\* C9: the credit note and the CANCELLED status are written as a pair: no
\* state has a credit note for an order that is still ISSUED, and deliveries
\* of the cancellation at the same time create one credit note, not more.
C9_NoteAndStatusAtomic ==
  \A o \in OrderIds :
    /\ (NotesOf(o) # {} /\ orders[o] # NoRow) => orders[o].invoiceStatus # "ISSUED"
    /\ Cardinality(NotesOf(o)) <= 1

\* The statuses whose cancellation writes the status alone.
CancelOnlyStatuses == {"CORRISPETTIVO", "FOREIGN", "PENDING", "ERROR"}

\* C10: a cancellation of an order that is CORRISPETTIVO, FOREIGN, PENDING or
\* ERROR sets the order CANCELLED and records the reason of the cancellation
\* on it; no step of its handler creates a credit note or calls the issuer.
C10_CancelWithoutNote ==
  [][\A d \in Deliveries :
       /\ (cw[d].pc = "idle" /\ cw'[d].seen \in CancelOnlyStatuses)
            => cw'[d].pc = "cancelOnly"
       /\ (cw'[d].seen \in CancelOnlyStatuses /\ cw'[d] # cw[d])
            => (notes' = notes /\ issued' = issued)
       /\ (cw[d].seen \in CancelOnlyStatuses /\ cw[d].pc = "cancelOnly"
             /\ cw'[d].pc = "respond" /\ cw'[d].resp # "Internal server error")
            => /\ cw'[d].resp = "cancelled"
               /\ orders'[cw[d].order].invoiceStatus = "CANCELLED"
               /\ orders'[cw[d].order].lastError =
                    "Ordine annullato: " \o OrElse(cw[d].reason, "N/A")]_vars

\* A cancellation with a reason was handled to the end for an order in ERROR:
\* the order is CANCELLED with the reason, and there is no credit note.
C10_Witness ==
  \E d \in Deliveries :
    /\ cw[d].pc = "respond"
    /\ cw[d].seen = "ERROR"
    /\ cw[d].resp = "cancelled"
    /\ cw[d].reason = "customer"
    /\ orders[cw[d].order].invoiceStatus = "CANCELLED"
    /\ orders[cw[d].order].lastError = "Ordine annullato: customer"
    /\ notes = <<>>

\* ---------------------------------------------------------- foreign orders
\* The order-creation event of order o carries a billing country other than IT.
ForeignEvent(o) == events[o] # NoRow /\ events[o].country \notin {NULL, "IT"}

C11_ForeignOrderWithJob ==
  \E o \in OrderIds : ForeignEvent(o) /\ JobsOf(o) # {}

\* ------------------------------------------------- classification of orders
\* A Billing Profile that qualifies its customer for invoices: isBusiness
\* with a VAT number or a fiscal code.
QualifiedProfile(p) == p # NoRow /\ p.isBusiness /\ (p.vatNumber \/ p.taxCode)

\* C12: the delivery of an order-creation event with billing country IT for a
\* customer whose Billing Profile is qualified stores the order PENDING with
\* hasVatProfile true and adds exactly one job for it: PENDING, attempts 0,
\* scheduledAt the time of the delivery.
C12_QualifiedItalianOrder ==
  [][\A o \in OrderIds : \A e \in OrderEvents(o) :
       (OrderCreate(o, e) /\ e.country = "IT" /\ QualifiedProfile(profiles'[e.customer]))
         => /\ orders'[o] # NoRow
            /\ orders'[o].invoiceStatus = "PENDING"
            /\ orders'[o].hasVatProfile
            /\ jobs[nextJob] = NoRow
            /\ jobs' = [jobs EXCEPT ![nextJob] =
                          [type |-> "invoice", shopifyOrderId |-> o, status |-> "PENDING",
                           attempts |-> 0, scheduledAt |-> now, lastError |-> NULL,
                           processedAt |-> NullNum]]
            /\ Cardinality(JobsIn(jobs', o)) = Cardinality(JobsIn(jobs, o)) + 1]_vars

\* An Italian order of a customer qualified by a fiscal code alone, stored
\* PENDING with its one job.
C12_Witness ==
  \E o \in OrderIds :
    /\ events[o] # NoRow
    /\ events[o].country = "IT"
    /\ profiles[events[o].customer] # NoRow
    /\ profiles[events[o].customer].isBusiness
    /\ ~profiles[events[o].customer].vatNumber
    /\ profiles[events[o].customer].taxCode
    /\ orders[o] # NoRow
    /\ orders[o].invoiceStatus = "PENDING"
    /\ orders[o].hasVatProfile
    /\ \E j \in JobIds : JobsOf(o) = {j} /\ jobs[j].status = "PENDING"
                         /\ jobs[j].attempts = 0 /\ jobs[j].scheduledAt = now

\* C13: the delivery of an order-creation event with billing country IT for a
\* customer without a qualified Billing Profile stores the order
\* CORRISPETTIVO with hasVatProfile false and adds no job.
C13_UnqualifiedItalianOrder ==
  [][\A o \in OrderIds : \A e \in OrderEvents(o) :
       (OrderCreate(o, e) /\ e.country = "IT" /\ ~QualifiedProfile(profiles'[e.customer]))
         => /\ orders'[o] # NoRow
            /\ orders'[o].invoiceStatus = "CORRISPETTIVO"
            /\ ~orders'[o].hasVatProfile
            /\ jobs' = jobs]_vars

\* No order is ever stored with the status CORRISPETTIVO.
C13_NoCorrispettivoStored ==
  \A o \in OrderIds : orders[o] # NoRow => orders[o].invoiceStatus # "CORRISPETTIVO"

\* --------------------------------------------------- issuance by the engine
\* C14: when the issuer answers the retry engine's call for a job, the engine
\* next writes the order ISSUED with the invoice id and date of the answer and
\* lastError cleared, and then the job COMPLETED with processedAt the time of
\* that write.
C14_IssuedAndCompleted ==
  [][\A w \in Workers :
       /\ RetryIssue(w, TRUE)
            => /\ rw'[w].pc = "writeIssued"
               /\ rw'[w].resultId # NullNum
               /\ rw'[w].resultDate = now
       /\ RetryWriteIssued(w)
            => LET o == Job(w).shopifyOrderId
               IN /\ orders'[o].invoiceStatus = "ISSUED"
                  /\ orders'[o].invoiceId = rw[w].resultId
                  /\ orders'[o].invoiceDate = rw[w].resultDate
                  /\ orders'[o].lastError = NULL
                  /\ rw'[w].pc = "complete"
                  /\ Job(w)' = Job(w)
       /\ (RetryComplete(w) /\ jobs[Job(w).id] # NoRow)
            => /\ jobs'[Job(w).id].status = "COMPLETED"
               /\ jobs'[Job(w).id].processedAt = now]_vars

\* The engine is about to write ISSUED on an order that carries an error text.
C14_Witness ==
  \E w \in Workers :
    /\ rw[w].pc = "writeIssued"
    /\ orders[Job(w).shopifyOrderId].invoiceStatus = "ERROR"
    /\ orders[Job(w).shopifyOrderId].lastError # NULL

\* ------------------------------------------------------- re-classification
\* C15: a save of the profile endpoint or of mark-business that carries
\* isBusiness, a VAT number and country IT sets hasVatProfile on the
\* customer's orders that are PENDING with hasVatProfile false; every save
\* adds exactly one job for each order it flips and no job for any other
\* order, so an order already PENDING with hasVatProfile true gets none and
\* saving again enqueues nothing.
C15_ReclassifyOncePerOrder ==
  [][\A c \in Customers :
       /\ (\/ \E body \in ProfileBodies :
                SaveProfile(c, body) /\ body.isBusiness /\ body.vatNumber
                  /\ body.countryCode = "IT"
           \/ \E body \in MarkBodies :
                MarkBusiness(c, body) /\ body.isBusiness /\ body.vatNumber
                  /\ users[c].countryCode = "IT")
            => \A o \in PendingOrdersOf(c) : orders'[o].hasVatProfile
       /\ ((\E body \in ProfileBodies : SaveProfile(c, body))
             \/ (\E body \in MarkBodies : MarkBusiness(c, body)))
            => \A o \in OrderIds :
                 IF /\ o \in PendingOrdersOf(c)
                    /\ ~orders[o].hasVatProfile
                    /\ orders'[o].hasVatProfile
                 THEN Cardinality(JobsIn(jobs', o)) = Cardinality(JobsIn(jobs, o)) + 1
                 ELSE JobsIn(jobs', o) = JobsIn(jobs, o)]_vars

\* An order with two jobs, the second added by a save of the profile.
C15_SecondJobBySave ==
  \E o \in OrderIds : delivered[o] = 1 /\ Cardinality(JobsOf(o)) = 2

\* C16: a save of the profile endpoint or of mark-business leaves every order
\* that is ISSUED, ERROR, CANCELLED, FOREIGN or CORRISPETTIVO as it is, and
\* adds no job for it.
C16_ReclassifyOnlyPending ==
  [][Profile =>
       \A o \in OrderIds :
         (orders[o] # NoRow /\ orders[o].invoiceStatus # "PENDING")
           => /\ orders'[o] = orders[o]
              /\ JobsIn(jobs', o) = JobsIn(jobs, o)]_vars

\* A qualifying profile is saved while the customer's order is ISSUED, ERROR,
\* CANCELLED or FOREIGN: the profile has its VAT number, the order is not
\* flagged.
C16_Witness ==
  \E o \in OrderIds :
    /\ orders[o] # NoRow
    /\ orders[o].invoiceStatus \in {"ISSUED", "ERROR", "CANCELLED", "FOREIGN"}
    /\ ~orders[o].hasVatProfile
    /\ users[orders[o].userId] # NoRow
    /\ users[orders[o].userId].countryCode = "IT"
    /\ KnownHasVatProfile(profiles[orders[o].userId], "IT")
    /\ profiles[orders[o].userId].vatNumber

\* C17: a save that carries isBusiness and country IT triggers the
\* re-classification of the customer's PENDING orders when it carries a VAT
\* number and also when it carries a fiscal code alone: each of those orders
\* then has hasVatProfile true and one more job.
C17_TriggerByVatOrTaxCode ==
  [][\A c \in Customers :
       (\/ \E body \in ProfileBodies :
             SaveProfile(c, body) /\ body.isBusiness
               /\ (body.vatNumber \/ body.taxCode) /\ body.countryCode = "IT"
        \/ \E body \in MarkBodies :
             MarkBusiness(c, body) /\ body.isBusiness
               /\ (body.vatNumber \/ body.taxCode) /\ users[c].countryCode = "IT")
         => \A o \in PendingOrdersOf(c) :
              /\ orders'[o].hasVatProfile
              /\ Cardinality(JobsIn(jobs', o)) = Cardinality(JobsIn(jobs, o)) + 1]_vars

\* A customer qualified by a fiscal code alone whose PENDING order is not
\* flagged and has no job.
C17_UnflaggedAfterTaxCodeSave ==
  \E o \in OrderIds :
    /\ orders[o] # NoRow
    /\ orders[o].invoiceStatus = "PENDING"
    /\ ~orders[o].hasVatProfile
    /\ JobsOf(o) = {}
    /\ QualifiedProfile(profiles[orders[o].userId])
    /\ ~profiles[orders[o].userId].vatNumber

\* ------------------------------------------------- claims and issuer calls
\* C18: in every state in which an invocation has an issuer call in flight
\* for a job, that job is PROCESSING with attempts at least 1, the claim write
\* having been made before the call.
C18_ClaimedWhileCallInFlight ==
  \A w \in Workers :
    rw[w].pc = "issue"
      => /\ jobs[Job(w).id] # NoRow
         /\ jobs[Job(w).id].status = "PROCESSING"
         /\ jobs[Job(w).id].attempts >= 1

\* An issuer call in flight for a job that is already COMPLETED.
C18_CallForCompletedJob ==
  \E w \in Workers :
    /\ rw[w].pc = "issue"
    /\ jobs[Job(w).id] # NoRow
    /\ jobs[Job(w).id].status = "COMPLETED"

\* --------------------------------------------------------------- progress
\* C19: every job that is PROCESSING is later COMPLETED, FAILED or PENDING
\* again (or removed), as long as the engine keeps being invoked, also when
\* the invocation that claimed it dies during the issuer call.
C19_ProcessingIsLeft ==
  \A j \in JobIds :
    (jobs[j] # NoRow /\ jobs[j].status = "PROCESSING")
      ~> (jobs[j] = NoRow \/ jobs[j].status \in {"COMPLETED", "FAILED", "PENDING"})

\* A PROCESSING job that no invocation is working on.
C19_OrphanedJob ==
  \E j \in JobIds :
    /\ jobs[j] # NoRow
    /\ jobs[j].status = "PROCESSING"
    /\ \A w \in Workers : rw[w].pc = "idle"

\* A job of order o waits for a time the model's clock does not reach.
BeyondHorizon(o) ==
  \E j \in JobsOf(o) :
    jobs[j].status = "PENDING" /\ jobs[j].scheduledAt + RetryDelayMinutes > MaxTime

\* C20: with the engine invoked again and again and no cancellation, every
\* order that has a job is later ISSUED or ERROR; here an order that the
\* engine finds foreign, and one whose retries fall beyond the clock of the
\* model, are let through as well.
C20_EnqueuedOrderIsSettled ==
  \A o \in OrderIds :
    (orders[o] # NoRow /\ JobsOf(o) # {})
      ~> (\/ (orders[o] # NoRow
               /\ orders[o].invoiceStatus \in {"ISSUED", "ERROR", "FOREIGN"})
          \/ BeyondHorizon(o))

\* The issuer call failed on every attempt: the job is FAILED after its third
\* attempt and the order is still PENDING.
C20_FailedJobPendingOrder ==
  \E o \in OrderIds : \E j \in JobsOf(o) :
    /\ jobs[j].status = "FAILED"
    /\ jobs[j].attempts = maxRetries
    /\ jobs[j].lastError = "OpenAPI SDI error"
    /\ orders[o].invoiceStatus = "PENDING"
    /\ \A w \in Workers : rw[w].pc = "idle"

\* ------------------------------------------------------------ credit notes
\* The customer of this order row is not a foreign one for the endpoints.
HomeOrder(order) ==
  users[order.userId].countryCode = NULL \/ users[order.userId].countryCode = "IT"

\* C21 (manual endpoint): a manual credit-note request for an order that is
\* missing or not ISSUED, or for a home order without a qualified profile,
\* creates no Credit Note, so calls no clearinghouse, and changes no order.
C21_ManualPreconditions ==
  [][\A o \in OrderIds : \A ok \in BOOLEAN :
       (/\ ManualCreditNote(o, ok)
        /\ \/ orders[o] = NoRow
           \/ orders[o].invoiceStatus # "ISSUED"
           \/ (HomeOrder(orders[o]) /\ ~QualifiedProfile(profiles[orders[o].userId])))
         => notes' = notes /\ orders' = orders]_vars

\* C21: as above for the manual endpoint, and the cancellation webhook
\* creates a Credit Note only for an order that is ISSUED and whose customer
\* has a qualified profile.
C21_NotePreconditions ==
  [][/\ \A o \in OrderIds : \A ok \in BOOLEAN :
          (/\ ManualCreditNote(o, ok)
           /\ \/ orders[o] = NoRow
              \/ orders[o].invoiceStatus # "ISSUED"
              \/ (HomeOrder(orders[o]) /\ ~QualifiedProfile(profiles[orders[o].userId])))
            => notes' = notes /\ orders' = orders
     /\ \A d \in Deliveries :
          CancelCreateNote(d)
            => /\ orders[cw[d].order].invoiceStatus = "ISSUED"
               /\ QualifiedProfile(profiles[orders[cw[d].order].userId])]_vars

\* The cancellation webhook's Credit Note for an order whose customer has no
\* profile.
C21_NoteWithoutProfile ==
  \E o \in OrderIds :
    /\ NotesOf(o) # {}
    /\ orders[o] # NoRow
    /\ profiles[orders[o].userId] = NoRow

\* ------------------------------------------------------- batch processing
\* The step that ends the work on a failed job: the failure update of the
\* job when it is not final, the order update when it is, the catch block.
FailureEnds(w) ==
  \/ (RetryFail(w) /\ ~isFinalFailure(Job(w)))
  \/ RetryOrderError(w)
  \/ RetryCatch(w)

\* C22: when the work on a job of the batch fails, by a failure message or
\* by an exception of the issuer, the invocation goes on with the rest of the
\* batch, the next job if there is one and the cleanup otherwise; and an
\* invocation ends only by its cleanup, after which it answers success.
C22_FailureDoesNotAbortBatch ==
  [][\A w \in Workers :
       /\ RetryIssue(w, FALSE) => (rw'[w].pc = "catch" /\ rw'[w].batch = rw[w].batch)
       /\ (RetryFail(w) /\ isFinalFailure(Job(w)))
            => (rw'[w].pc = "orderError" /\ rw'[w].batch = rw[w].batch)
       /\ FailureEnds(w)
            => /\ rw'[w].batch = Tail(rw[w].batch)
               /\ rw'[w].pc = IF Tail(rw[w].batch) = <<>> THEN "cleanup" ELSE "claim"
       /\ (rw[w].pc # "idle" /\ rw'[w].pc = "idle") => RetryCleanup(w)]_vars

\* The invocation is about to claim the second job of its batch after the
\* issuer threw on the first one.
C22_Witness ==
  \E w \in Workers : \E j \in JobIds :
    /\ rw[w].pc = "claim"
    /\ Len(rw[w].batch) = 1
    /\ j # Job(w).id
    /\ jobs[j] # NoRow
    /\ jobs[j].status = "PENDING"
    /\ jobs[j].lastError = "OpenAPI SDI error"
    /\ jobs[j].scheduledAt = now + RetryDelayMinutes

\* ---------------------------------------------------------- batch selection
\* The ids of the jobs an invocation holds.
BatchIds(b) == {b[i].id : i \in 1..Len(b)}

\* The three conditions of the selection, on a job row.
Selectable(row) ==
  /\ row # NoRow
  /\ row.status = "PENDING"
  /\ row.attempts < 3
  /\ row.scheduledAt <= now

\* C23: the batch an invocation selects has at most 10 jobs, each of them
\* once; every job in it is PENDING with attempts below 3 and scheduledAt not
\* after now; no selectable job left out has a smaller scheduledAt than a
\* selected one, and none is left out while the batch has fewer than 10.
C23_BatchSelection ==
  [][\A w \in Workers :
       RetryStart(w) =>
         LET b == rw'[w].batch
         IN /\ Len(b) <= 10
            /\ Cardinality(BatchIds(b)) = Len(b)
            /\ \A i \in 1..Len(b) :
                 /\ Selectable(jobs[b[i].id])
                 /\ b[i].attempts = jobs[b[i].id].attempts
            /\ \A s \in BatchIds(b) : \A u \in (DOMAIN jobs) \ BatchIds(b) :
                 Selectable(jobs[u])
                   => /\ jobs[s].scheduledAt <= jobs[u].scheduledAt
                      /\ Len(b) = 10]_vars

\* More than 10 jobs were due: the batch has 10, a job due since now is in it
\* and another job due since now is left out.
C23_Witness ==
  \E w \in Workers :
    /\ rw[w].pc = "claim"
    /\ Len(rw[w].batch) = 10
    /\ \E s \in BatchIds(rw[w].batch) : jobs[s].scheduledAt = now
    /\ \E u \in (DOMAIN jobs) \ BatchIds(rw[w].batch) :
         Selectable(jobs[u]) /\ jobs[u].scheduledAt = now

C24_MissingOrderRetried ==
  \E j \in JobIds :
    /\ jobs[j] # NoRow
    /\ orders[jobs[j].shopifyOrderId] = NoRow
    /\ jobs[j].status = "PENDING"
    /\ jobs[j].attempts = 1
    /\ jobs[j].lastError = "Order not found"

\* C25: an invocation that reads the order of its job as ISSUED goes straight
\* to the completion of the job, which it writes COMPLETED; neither step
\* calls the issuer or writes the order.
C25_IssuedOrderCompletesJob ==
  [][\A w \in Workers :
       /\ (/\ RetryRead(w)
           /\ orders[Job(w).shopifyOrderId] # NoRow
           /\ orders[Job(w).shopifyOrderId].invoiceStatus = "ISSUED")
            => /\ rw'[w].pc = "complete"
               /\ rw'[w].snap = "ISSUED"
               /\ UNCHANGED <<orders, issued, jobs>>
       /\ (RetryComplete(w) /\ rw[w].snap = "ISSUED")
            => /\ jobs'[Job(w).id].status = "COMPLETED"
               /\ jobs'[Job(w).id].processedAt = now
               /\ UNCHANGED <<orders, issued>>]_vars

\* The engine found the order ISSUED by manual issuance and has completed the
\* job: the order carries the one invoice.
C25_Witness ==
  \E o \in OrderIds : \E j \in JobsOf(o) :
    /\ orders[o].invoiceStatus = "ISSUED"
    /\ issued[o] = 1
    /\ orders[o].invoiceId = 1
    /\ jobs[j].status = "COMPLETED"
    /\ jobs[j].attempts = 1
    /\ \A w \in Workers : rw[w].pc = "idle"

\* The order row is FOREIGN, or its customer has a country other than IT.
ForeignRow(order) ==
  \/ order.invoiceStatus = "FOREIGN"
  \/ /\ users[order.userId].countryCode # NULL
     /\ users[order.userId].countryCode # "IT"

\* C26, as stated: an invocation that reads an order that is FOREIGN, or
\* whose customer has a country other than IT, goes on to write the order
\* FOREIGN.
C26_ForeignRowIsFlipped ==
  [][\A w \in Workers :
       (/\ RetryRead(w)
        /\ orders[Job(w).shopifyOrderId] # NoRow
        /\ ForeignRow(orders[Job(w).shopifyOrderId]))
         => rw'[w].pc = "foreign"]_vars

\* C26, for the orders that are not ISSUED: an invocation that reads such an
\* order as FOREIGN, or with a customer whose country is not IT, writes the
\* order FOREIGN with lastError cleared and then the job COMPLETED; no step
\* of the three calls the issuer.
C26_ForeignOrderCompletesJob ==
  [][\A w \in Workers :
       /\ (/\ RetryRead(w)
           /\ orders[Job(w).shopifyOrderId] # NoRow
           /\ orders[Job(w).shopifyOrderId].invoiceStatus # "ISSUED"
           /\ ForeignRow(orders[Job(w).shopifyOrderId]))
            => /\ rw'[w].pc = "foreign"
               /\ UNCHANGED <<orders, issued, jobs>>
       /\ RetryForeign(w)
            => /\ orders'[Job(w).shopifyOrderId].invoiceStatus = "FOREIGN"
               /\ orders'[Job(w).shopifyOrderId].lastError = NULL
               /\ rw'[w].pc = "complete"
               /\ UNCHANGED <<issued, jobs>>
       /\ (/\ RetryComplete(w)
           /\ rw[w].snap # "ISSUED"
           /\ rw[w].resultId = NullNum)
            => /\ jobs'[Job(w).id].status = "COMPLETED"
               /\ UNCHANGED <<orders, issued>>]_vars

\* The engine has flipped the order of a customer who moved abroad and
\* completed its job; the issuer was never called.
C26_Witness ==
  \E o \in OrderIds : \E j \in JobsOf(o) :
    /\ orders[o].invoiceStatus = "FOREIGN"
    /\ orders[o].lastError = NULL
    /\ users[orders[o].userId].countryCode = "FR"
    /\ issued[o] = 0
    /\ jobs[j].status = "COMPLETED"
    /\ jobs[j].attempts = 1
    /\ \A w \in Workers : rw[w].pc = "idle"

\* ---------------------------------------------------------------------
\* Properties: the delay between attempts
\* ---------------------------------------------------------------------

\* The step of w is the failure update of its job, by either branch.
FailureUpdate(w) ==
  /\ RetryFail(w) \/ RetryCatch(w)
  /\ jobs[Job(w).id] # NoRow

C28_PurgedAtEveryReturn ==
  [][\A w \in Workers :
       (RetryCleanup(w) \/ RetryReturn(w))
         => \A j \in JobIds : ~Purged(jobs[j])']_vars

\* An invocation that found no due job is about to return and a job
\* COMPLETED more than seven days before is in the queue.
C28_OldJobAfterEmptyRun ==
  /\ \E w \in Workers : rw[w].pc = "noJobs"
  /\ \E j \in JobIds : Purged(jobs[j]) /\ jobs[j].status = "COMPLETED"

\* ---------------------------------------------------------------------
\* Properties: manual retry
\* ---------------------------------------------------------------------

\* The job as a manual retry leaves it.
Requeued(row) ==
  /\ row.status = "PENDING"
  /\ row.attempts = 0
  /\ row.lastError = NULL
  /\ row.scheduledAt = now

\* C29: a manual retry by job id rewrites that job and no other as PENDING
\* with attempts 0, no lastError and scheduledAt now; a manual retry by
\* order id rewrites so the invoice jobs of that order and leaves the jobs
\* of every other order as they were; the invocation that follows selects
\* the rewritten jobs.
C29_ManualRetryTargets ==
  [][/\ \A j \in JobIds :
          ManualRetryJob(j)
            => /\ Requeued(jobs'[j])
               /\ \A k \in JobIds \ {j} : jobs'[k] = jobs[k]
     /\ \A o \in RequeueOrders :
          ManualRetryOrder(o)
            => \A j \in JobIds :
                 IF j \in JobsOf(o) THEN Requeued(jobs'[j]) ELSE jobs'[j] = jobs[j]
     /\ \A w \in Workers :
          RetryStart(w)
            => \A j \in JobIds :
                 Requeued(jobs[j]) => j \in BatchIds(rw'[w].batch)]_vars

\* A retry asked for order 1 has rewritten the FAILED job of order 11.
C29_OtherOrderRequeued ==
  \E j \in JobIds :
    /\ jobs[j].shopifyOrderId = 11
    /\ Requeued(jobs[j])
    /\ \E k \in JobIds : jobs[k].shopifyOrderId = 1 /\ Requeued(jobs[k])

\* ---------------------------------------------------------------------
\* Properties: manual issuance
\* ---------------------------------------------------------------------

\* C30: manual issuance asked for an order that is ISSUED answers 400, and
\* for an order that does not exist 404; in both cases the request calls no
\* issuer and leaves the orders and the jobs as they were.
C30_IssuedOrMissingUntouched ==
  [][\A o \in OrderIds, ok \in BOOLEAN :
       /\ (orders[o] # NoRow /\ orders[o].invoiceStatus = "ISSUED")
            => /\ IssueResponse(orders[o], ok) = 400
               /\ ManualIssue(o, ok) => UNCHANGED <<orders, jobs, issued>>
       /\ orders[o] = NoRow
            => /\ IssueResponse(orders[o], ok) = 404
               /\ ManualIssue(o, ok) => UNCHANGED <<orders, jobs, issued>>]_vars

\* An order issued once whose job is still queued: the state in which a
\* second manual issuance is refused.
C30_Witness ==
  \E o \in OrderIds :
    /\ orders[o] # NoRow
    /\ orders[o].invoiceStatus = "ISSUED"
    /\ orders[o].invoiceId = 1
    /\ issued[o] = 1
    /\ \E j \in JobsOf(o) : jobs[j].status = "PENDING"
    /\ ENABLED ManualIssue(o, TRUE)

\* ---------------------------------------------------------------------
\* Properties: operator actions
\* ---------------------------------------------------------------------

\* C31: reset_errors rewrites the selected orders that are ERROR as PENDING
\* with no lastError, and nothing else: every other field of those orders,
\* the selected orders in another status, the orders not selected and the
\* jobs stay as they were.
C31_ResetFrame ==
  [][\A S \in SUBSET OrderIds :
       ResetErrors(S)
         => /\ \A o \in OrderIds :
                 orders'[o] =
                   IF o \in S /\ orders[o] # NoRow /\ orders[o].invoiceStatus = "ERROR"
                   THEN [orders[o] EXCEPT !.invoiceStatus = "PENDING", !.lastError = NULL]
                   ELSE orders[o]
            /\ UNCHANGED <<jobs, nextJob, issued, users, profiles, notes>>]_vars

\* The order went to ERROR when its job failed for the last time and has
\* been reset: it is PENDING again, the job still FAILED.
C31_Witness ==
  \E o \in OrderIds : \E j \in JobsOf(o) :
    /\ orders[o].invoiceStatus = "PENDING"
    /\ orders[o].lastError = NULL
    /\ jobs[j].status = "FAILED"
    /\ jobs[j].attempts = maxRetries


\* ---------------------------------------------------------------------
\* Properties: orders of unknown customers
\* ---------------------------------------------------------------------

\* The status and flag the rules for a known customer give the event, on
\* the customer and profile as the handler has left them.
KnownOutcome(e) ==
  LET c == e.customer
      billingCountryCode == OrElse(e.country, users[c].countryCode)
      hasVatProfile == KnownHasVatProfile(profiles[c], billingCountryCode)
  IN [hasVatProfile |-> hasVatProfile,
      invoiceStatus |-> KnownInvoiceStatus(hasVatProfile, billingCountryCode)]

\* C32: the order-creation event of a customer not in the database creates
\* the customer and stores the order, with the status and the flag the rules
\* for a known customer give it.
C32_UnknownCustomerStored ==
  [][\A o \in OrderIds : \A e \in OrderEvents(o) :
       (OrderCreate(o, e) /\ users[e.customer] = NoRow)
         => /\ users'[e.customer] # NoRow
            /\ orders'[o] # NoRow
            /\ orders'[o].invoiceStatus = KnownOutcome(e)'.invoiceStatus
            /\ orders'[o].hasVatProfile = KnownOutcome(e)'.hasVatProfile]_vars

\* The same, for the events the rules do not classify CORRISPETTIVO.
C32_UnknownCustomerClassified ==
  [][\A o \in OrderIds : \A e \in OrderEvents(o) :
       (/\ OrderCreate(o, e)
        /\ users[e.customer] = NoRow
        /\ KnownOutcome(e)'.invoiceStatus # "CORRISPETTIVO")
         => /\ users'[e.customer] # NoRow
            /\ orders'[o] # NoRow
            /\ orders'[o].invoiceStatus = KnownOutcome(e)'.invoiceStatus
            /\ orders'[o].hasVatProfile = KnownOutcome(e)'.hasVatProfile]_vars

\* The event of an unknown Italian customer without business data was
\* answered with an error: the customer exists, the order does not.
C32_CustomerWithoutOrder ==
  \E o \in OrderIds :
    /\ delivered[o] > 0
    /\ orders[o] = NoRow
    /\ events[o] # NoRow
    /\ users[events[o].customer] # NoRow
    /\ users[events[o].customer].countryCode = "IT"

\* ---------------------------------------------------------------------
\* Properties: credit notes of foreign customers
\* ---------------------------------------------------------------------

\* C33: the manual credit-note endpoint, asked for an ISSUED order whose
\* customer has a country other than IT, adds one Credit Note with status
\* FOREIGN and the total of the order as amount; it does so on the branch
\* that returns before the clearinghouse is called, whatever the
\* clearinghouse would answer, and writes nothing else.
C33_ForeignNoteRecordedLocally ==
  [][\A o \in OrderIds : \A ok \in BOOLEAN :
       (/\ ManualCreditNote(o, ok)
        /\ orders[o] # NoRow
        /\ orders[o].invoiceStatus = "ISSUED"
        /\ users[orders[o].userId].countryCode \notin {NULL, "IT"})
         => /\ CreditNoteBranch(orders[o]) = "foreign"
            /\ Len(notes') = Len(notes) + 1
            /\ notes'[Len(notes')].status = "FOREIGN"
            /\ notes'[Len(notes')].totalAmount = orders[o].totalPrice
            /\ notes'[Len(notes')].orderId = <<"shopifyOrderId", o>>
            /\ SubSeq(notes', 1, Len(notes)) = notes
            /\ UNCHANGED <<orders, jobs, issued>>]_vars

\* The FOREIGN note of an ISSUED order whose customer moved to FR.
C33_Witness ==
  \E o \in OrderIds : \E i \in 1..Len(notes) :
    /\ orders[o] # NoRow
    /\ orders[o].invoiceStatus = "ISSUED"
    /\ users[orders[o].userId].countryCode = "FR"
    /\ notes[i].orderId = <<"shopifyOrderId", o>>
    /\ notes[i].status = "FOREIGN"
    /\ notes[i].totalAmount = TotalOf(o)


\* ---------------------------------------------------------------------
\* Properties: invariants of the whole system
\* ---------------------------------------------------------------------

\* C34: the issuer has answered at most one issueInvoice call for each order.
C34_InvoicedAtMostOnce ==
  \A o \in OrderIds : issued[o] <= 1

\* The order carries its second invoice.
C34_InvoicedTwice ==
  \E o \in OrderIds :
    /\ issued[o] = 2
    /\ orders[o].invoiceStatus = "ISSUED"
    /\ orders[o].invoiceId = 2


\* C35: no step changes the status of an order that is CANCELLED, and no
\* step has the issuer answer a call for it.
C35_CancelledIsAbsorbing ==
  [][\A o \in OrderIds :
       (orders[o] # NoRow /\ orders[o].invoiceStatus = "CANCELLED")
         => /\ orders'[o] # NoRow
            /\ orders'[o].invoiceStatus = "CANCELLED"
            /\ issued'[o] = issued[o]]_vars

\* A cancelled order that was then issued by hand.
C35_IssuedAfterCancel ==
  \E o \in OrderIds :
    /\ o \in cancelDone
    /\ orders[o].invoiceStatus = "ISSUED"
    /\ issued[o] = 1


\* C36: every job has attempts at most 3, and no job is PENDING with
\* attempts 3 or more.
C36_AttemptsBounded ==
  \A j \in JobIds :
    jobs[j] # NoRow
      => /\ jobs[j].attempts <= maxRetries
         /\ ~(jobs[j].status = "PENDING" /\ jobs[j].attempts >= maxRetries)

\* A job left PENDING with three attempts by invocations at rest: the
\* selection never returns it again.
C36_StuckPendingJob ==
  /\ \A w \in Workers : rw[w].pc = "idle"
  /\ \E j \in JobIds :
       /\ jobs[j] # NoRow
       /\ jobs[j].status = "PENDING"
       /\ jobs[j].attempts >= maxRetries


\* C37: no step of the retry engine changes the status of a job that is
\* COMPLETED or FAILED; the cleanup may remove the job.
C37_TerminalJobStays ==
  [][\A j \in JobIds :
       (/\ jobs[j] # NoRow
        /\ jobs[j].status \in {"COMPLETED", "FAILED"}
        /\ jobs'[j] # NoRow)
         => jobs'[j].status = jobs[j].status]_vars

\* An invocation holds as claimed a job that another invocation completed:
\* the job is PROCESSING again, with the attempts of both.
C37_CompletedJobClaimed ==
  \E w \in Workers : \E j \in JobIds :
    /\ rw[w].pc = "read"
    /\ Job(w).id = j
    /\ jobs[j] # NoRow
    /\ jobs[j].status = "PROCESSING"
    /\ jobs[j].attempts = 2
    /\ jobs[j].processedAt # NullNum


\* The credit notes of an order, those the cancellation webhook keys by the
\* id of the order row and those the manual endpoint keys by shopifyOrderId.
AllNotesOf(o) ==
  {i \in 1..Len(notes) : notes[i].orderId \in {InternalId(o), <<"shopifyOrderId", o>>}}

\* C38: every order has at most one Credit Note, whichever handler created it.
C38_OneNotePerOrder ==
  \A o \in OrderIds : Cardinality(AllNotesOf(o)) <= 1

\* A manual note and, after it, the note of the cancellation for one order.
C38_ManualThenCancelNote ==
  \E o \in OrderIds : \E i, k \in AllNotesOf(o) :
    /\ i < k
    /\ notes[i].orderId = <<"shopifyOrderId", o>>
    /\ notes[k].orderId = InternalId(o)
    /\ notes[k].status = "PENDING"


\* C39: no step changes or removes a Credit Note that exists; in
\* particular a note created PENDING by a cancellation is PENDING in every
\* later state.
C39_NotesNeverChange ==
  [][/\ Len(notes') >= Len(notes)
     /\ \A i \in 1..Len(notes) : notes'[i] = notes[i]]_vars

\* The PENDING note of a cancellation, still PENDING after the order was
\* issued again by hand and a manual credit note was issued for it.
C39_Witness ==
  \E o \in OrderIds :
    /\ Len(notes) = 2
    /\ notes[1].orderId = InternalId(o)
    /\ notes[1].status = "PENDING"
    /\ notes[2].orderId = <<"shopifyOrderId", o>>
    /\ notes[2].status = "ISSUED"
    /\ o \in cancelDone


\* The job can still be worked by the engine.
LiveJob(row) ==
  \/ row.status = "PROCESSING"
  \/ row.status = "PENDING" /\ row.attempts < maxRetries

\* C40: every order that is PENDING with hasVatProfile true has an invoice
\* job that is PROCESSING, or PENDING with fewer than 3 attempts. The states
\* looked at are those between invocations of the engine, which writes the
\* job and the order of a final failure one after the other.
C40_PendingOrderHasLiveJob ==
  (\A w \in Workers : rw[w].pc = "idle")
    => \A o \in OrderIds :
         (orders[o] # NoRow /\ orders[o].invoiceStatus = "PENDING"
            /\ orders[o].hasVatProfile)
           => \E j \in JobsOf(o) : LiveJob(jobs[j])

\* The order was reset from ERROR by the operator: it is PENDING with
\* hasVatProfile true, and its only job is FAILED.
C40_ResetOrderWithoutJob ==
  \E o \in OrderIds :
    /\ orders[o] # NoRow
    /\ orders[o].invoiceStatus = "PENDING"
    /\ orders[o].hasVatProfile
    /\ orders[o].lastError = NULL
    /\ JobsOf(o) # {}
    /\ \A j \in JobsOf(o) :
         jobs[j].status = "FAILED"
           /\ jobs[j].lastError = "Customer missing valid billing profile"
    /\ \A w \in Workers : rw[w].pc = "idle"

====
